---- MODULE Spec2Model ----
(***************************************************************************)
(* SAAT audit engine: runAudit (scan -> extract -> validate -> accumulate  *)
(* -> aggregate), the validator registry, buildRuleStatuses and the        *)
(* JsonReporter statistics.                                                *)
(*                                                                         *)
(* A path is a natural number: path p is the p-th path of the file tree in *)
(* localeCompare order.  A file's text is abstracted to the features the   *)
(* validators' patterns read.  A percentage is the exact fraction          *)
(* [num, den] of the division the code performs.                           *)
(***************************************************************************)
EXTENDS Integers, Sequences, FiniteSets, TLC

VARIABLES
    config,             \* SaatConfig, by the field runAudit reads: [rules]
    fs,                 \* the file tree under config.componentsDir
    pc,                 \* position inside runAudit
    componentMetadata,  \* result of scanComponents
    rulesApplied,       \* rule ids selected from the registry
    idx,                \* 1-based position of the for-of loop over componentMetadata
    component,          \* the VueComponent being validated (NoComponent outside)
    vpos,               \* 1-based position of the for-of loop over VALIDATORS
    violations,         \* violations accumulated for the current component
    results,            \* accumulated EnhancedComponentAuditResult list
    parsed,             \* tally of analysed components
    failed,             \* tally of components whose extraction failed
    extracted,          \* history: paths handed to parseVueFile, in call order
    report,             \* the EnhancedAuditResult (NoReport until generated)
    par,                \* the run that processes the components in any completion order
    call,               \* invocations of the parser and of the validators' detectors
    cli                 \* the command-line run around runAudit

vars == <<config, fs, pc, componentMetadata, rulesApplied, idx, component, vpos,
          violations, results, parsed, failed, extracted, report, par, call, cli>>

----------------------------------------------------------------------------
(* Bounds of the model *)

MaxPaths == 2
MaxReportComponents == 3
MaxNodes == 3
MaxTokens == 3
MaxStem == 3
MaxImgs == 2
MaxLines == 2
MaxCalls == 2
MaxCliComponents == 2

----------------------------------------------------------------------------
(* Rule registry *)

VALIDATORS ==
    << [ruleId |-> "1.1.1", ruleName |-> "Non-text Content"],
       [ruleId |-> "1.3.1", ruleName |-> "Info and Relationships"],
       [ruleId |-> "1.3.2", ruleName |-> "Meaningful Sequence"],
       [ruleId |-> "1.4.1", ruleName |-> "Use of Color"],
       [ruleId |-> "2.1.1", ruleName |-> "Keyboard Access"],
       [ruleId |-> "2.2.1", ruleName |-> "Timing"],
       [ruleId |-> "2.4.1", ruleName |-> "Bypass Blocks"],
       [ruleId |-> "2.4.3", ruleName |-> "Focus Order"],
       [ruleId |-> "2.4.4", ruleName |-> "Link Purpose"],
       [ruleId |-> "2.5.1", ruleName |-> "Pointer Gestures"],
       [ruleId |-> "3.1.1", ruleName |-> "Language of Page"],
       [ruleId |-> "3.2.4", ruleName |-> "Consistent Identification"],
       [ruleId |-> "3.3.1", ruleName |-> "Error Identification"],
       [ruleId |-> "3.3.2", ruleName |-> "Labels or Instructions"],
       [ruleId |-> "4.1.2", ruleName |-> "Name, Role, Value"],
       [ruleId |-> "4.1.3", ruleName |-> "Status Messages"] >>

RegistryIds == { VALIDATORS[k].ruleId : k \in DOMAIN VALIDATORS }

\* Rules the documentation restricts to page/section-level components.
PageOnlyRules == {"2.4.1", "3.1.1"}

\* The codes of the rule catalog, in the order of its keys.
WCAG_RULES ==
    <<"1.1.1", "1.3.1", "1.3.2", "1.4.1", "2.1.1", "2.2.1", "2.4.1", "2.4.3",
      "2.4.4", "2.5.1", "3.1.1", "3.2.4", "3.3.1", "3.3.2", "4.1.2", "4.1.3">>

----------------------------------------------------------------------------
(* Sequence helpers *)

Range(s) == { s[k] : k \in DOMAIN s }

Includes(s, x) == \E k \in DOMAIN s : s[k] = x

RECURSIVE SumSeq(_)
SumSeq(s) == IF s = <<>> THEN 0 ELSE Head(s) + SumSeq(Tail(s))

----------------------------------------------------------------------------
(* File tree and file text *)

\* File name stem and directory of path p.
Stem(p) == IF p % 3 = 1 THEN "ItemCard"
           ELSE IF p % 3 = 2 THEN "PageHome" ELSE "Home"

InPagesDir(p) == p % 3 = 0

NoFindings == [r \in RegistryIds |-> <<>>]

\* Texts a file may hold, by the features the validators read:
\*   exportName  name in the export default block ("" when none)
\*   hasMain, hasSkipLink, hasNav   what validate2_4_1's patterns match
\*   lang        what validate3_1_1's patterns match on <html lang=...>
\*   findings    severities the other rules' detectors report, in order
\*   throws      rules whose validator raises on this text
EmptyText ==
    [exportName |-> "", hasMain |-> FALSE, hasSkipLink |-> FALSE, hasNav |-> FALSE,
     lang |-> "absent", findings |-> NoFindings, throws |-> {}]

Texts ==
    { EmptyText,
      [EmptyText EXCEPT !.hasMain = TRUE, !.hasNav = TRUE, !.lang = "valid"],
      [EmptyText EXCEPT !.hasSkipLink = TRUE, !.lang = "invalid",
                        !.findings = [NoFindings EXCEPT !["1.1.1"] = <<"error">>,
                                                        !["1.3.1"] = <<"warning", "warning">>]],
      [EmptyText EXCEPT !.exportName = "PageSettings", !.hasNav = TRUE,
                        !.lang = "underscore",
                        !.findings = [NoFindings EXCEPT !["3.2.4"] = <<"warning">>]],
      [EmptyText EXCEPT !.findings = [NoFindings EXCEPT !["1.1.1"] = <<"warning", "error">>,
                                                        !["1.3.1"] = <<"error">>],
                        !.throws = {"1.3.1", "2.4.1"}] }

\* A file: readFileSync either fails or yields a text.  Nothing below a
\* directory that cannot be read can be read.
UnreadableFile == [readable |-> FALSE, text |-> EmptyText]

Files == { UnreadableFile }
         \cup { [readable |-> TRUE, text |-> t] : t \in Texts }

\* An entry of a directory: statSync succeeds or raises; a directory's
\* readdirSync succeeds (listing: its entries in readdir order) or raises; a
\* file's name ends with .vue or not.
VueFileNode ==
    [kind |-> "file", statOk |-> TRUE, vue |-> TRUE, readable |-> FALSE, listing |-> <<>>]

\* readdirSync orders of a set of paths.
Listings(S) ==
    { l \in [1..Cardinality(S) -> S] : \A a, b \in DOMAIN l : a # b => l[a] # l[b] }

Configs ==
    { [rules |-> <<"3.1.1", "2.4.1">>],
      [rules |-> <<"3.2.4", "1.1.1", "1.1.1", "9.9.9", "1.3.1">>],
      [rules |-> <<"2.4.1">>] }

----------------------------------------------------------------------------
(* component-scanner.ts *)

\* Comparator of the sort: a.path.localeCompare(b.path) <= 0
PathLeq(a, b) == a.path <= b.path

RECURSIVE InsertSorted(_, _)
InsertSorted(m, s) ==
    IF s = <<>> THEN <<m>>
    ELSE IF PathLeq(m, Head(s)) THEN <<m>> \o s
         ELSE <<Head(s)>> \o InsertSorted(m, Tail(s))

\* variant: the order is left as it is
SortByPathKeepsOrder(s) == s

RECURSIVE SortByPath(_)
SortByPath(s) ==
    IF s = <<>> THEN <<>> ELSE InsertSorted(Head(s), SortByPath(Tail(s)))

\* The loop of walk() over the entries of one directory that readdirSync
\* returned, in the order it returned them.  statSync raising on an entry is
\* caught by the try around the whole loop: the entries after it are not
\* visited.  A subdirectory is walked by a call with a try of its own, which
\* leaves the list as it was when its readdirSync raises.
RECURSIVE walk(_, _, _)
walk(tree, listing, components) ==
    IF listing = <<>> THEN components
    ELSE LET p == Head(listing)
             n == tree.node[p]
         IN  IF ~n.statOk THEN components
             ELSE IF n.kind = "dir"
             THEN walk(tree, Tail(listing),
                       IF n.readable THEN walk(tree, n.listing, components)
                       ELSE components)
             ELSE IF n.vue
             THEN walk(tree, Tail(listing),
                       Append(components, [name |-> Stem(p), path |-> p]))
             ELSE walk(tree, Tail(listing), components)

\* walk(baseDir): readdirSync failure is swallowed and leaves the list as it was
Walk(tree) ==
    IF tree.rootReadable THEN walk(tree, tree.listing, <<>>) ELSE <<>>

\* variant: the list is returned in directory order
scanComponentsUnsorted(tree) == Walk(tree)

scanComponents(tree) == SortByPath(Walk(tree))

----------------------------------------------------------------------------
(* vue-parser *)

extractComponentName(p, text) ==
    IF text.exportName # "" THEN text.exportName ELSE Stem(p)

parseVueFile(p, text) ==
    [name |-> extractComponentName(p, text), path |-> p, text |-> text]

NoComponent == [name |-> "", path |-> 0, text |-> EmptyText]

----------------------------------------------------------------------------
(* Validators *)

isPage(c) ==
    \/ c.name \in {"PageHome", "PageSettings"}   \* name.startsWith('Page')
    \/ InPagesDir(c.path)                        \* path.includes('/pages/')

\* variant: the violations carry the id of the file the validator lives in
validate2_4_1StampsTiming(c) ==
    IF isPage(c) /\ ~c.text.hasNav
    THEN << [ruleId |-> "2.2.1", ruleName |-> "Timing", severity |-> "warning",
             issue |-> "No navigation landmark found"] >>
    ELSE <<>>

validate2_4_1(c) ==
    IF isPage(c)
    THEN (IF ~c.text.hasMain /\ ~c.text.hasSkipLink
          THEN << [ruleId |-> "2.4.1", ruleName |-> "Bypass Blocks", severity |-> "error",
                   issue |-> "No main landmark or skip link found"] >>
          ELSE <<>>)
         \o
         (IF ~c.text.hasNav
          THEN << [ruleId |-> "2.4.1", ruleName |-> "Bypass Blocks", severity |-> "warning",
                   issue |-> "No navigation landmark found"] >>
          ELSE <<>>)
    ELSE <<>>

\* A violation as a converted validator returns it: severity "" when not set.
detectMissingLangAttribute(text) ==
    IF text.lang \in {"absent", "invalid"}
    THEN << [severity |-> "error", issue |-> "HTML element lacks lang attribute"] >>
    ELSE <<>>

detectInvalidLangAttribute(text) ==
    IF text.lang \in {"underscore", "invalid"}
    THEN << [severity |-> "error", issue |-> "Invalid lang value"] >>
    ELSE <<>>

validate3_1_1(text) == detectMissingLangAttribute(text) \o detectInvalidLangAttribute(text)

convertViolation(ruleId, ruleName, v) ==
    [ruleId |-> ruleId, ruleName |-> ruleName,
     severity |-> IF v.severity = "" THEN "error" ELSE v.severity,
     issue |-> v.issue]

\* The detectors of the remaining rules, by what they report on the text.
Detect(ruleId, text) ==
    [k \in DOMAIN text.findings[ruleId] |->
        [severity |-> text.findings[ruleId][k], issue |-> "finding"]]

\* Validators that build Violation objects themselves, with their own id.
DirectRules == {"1.1.1", "1.3.1", "2.1.1", "2.5.1", "3.3.2", "4.1.2"}

\* VALIDATORS[k].validate(component) when it returns
Validate(v, c) ==
    IF v.ruleId = "2.4.1" THEN validate2_4_1(c)
    ELSE IF v.ruleId = "3.1.1"
    THEN [k \in DOMAIN validate3_1_1(c.text) |->
             convertViolation("3.1.1", "Language of Page", validate3_1_1(c.text)[k])]
    ELSE IF v.ruleId \in DirectRules
    THEN [k \in DOMAIN Detect(v.ruleId, c.text) |->
             [ruleId |-> v.ruleId, ruleName |-> v.ruleName,
              severity |-> Detect(v.ruleId, c.text)[k].severity,
              issue |-> Detect(v.ruleId, c.text)[k].issue]]
    ELSE [k \in DOMAIN Detect(v.ruleId, c.text) |->
             convertViolation(v.ruleId, v.ruleName, Detect(v.ruleId, c.text)[k])]

Throws(v, c) == v.ruleId \in c.text.throws

----------------------------------------------------------------------------
(* audit: buildRuleStatuses *)

ViolationsForRule(vs, ruleId) == SelectSeq(vs, LAMBDA v : v.ruleId = ruleId)

\* variant: only error-severity violations fail a rule
buildRuleStatusesErrorsOnly(vs, rules) ==
    [k \in DOMAIN rules |->
        [ruleId |-> rules[k],
         status |-> IF \E j \in DOMAIN ViolationsForRule(vs, rules[k]) :
                          ViolationsForRule(vs, rules[k])[j].severity = "error"
                    THEN "FAILED" ELSE "PASSED",
         violationCount |-> Len(ViolationsForRule(vs, rules[k]))]]

buildRuleStatuses(vs, rules) ==
    [k \in DOMAIN rules |->
        [ruleId |-> rules[k],
         status |-> IF Len(ViolationsForRule(vs, rules[k])) > 0 THEN "FAILED" ELSE "PASSED",
         violationCount |-> Len(ViolationsForRule(vs, rules[k]))]]

\* variant: the configured ids that are registered, in configuration order
SelectRulesInConfigOrder(cfg) == SelectSeq(cfg.rules, LAMBDA r : r \in RegistryIds)

\* VALIDATORS.filter(v => config.rules.includes(v.ruleId)).map(v => v.ruleId)
SelectRules(cfg) ==
    [k \in DOMAIN SelectSeq(VALIDATORS, LAMBDA v : Includes(cfg.rules, v.ruleId)) |->
        SelectSeq(VALIDATORS, LAMBDA v : Includes(cfg.rules, v.ruleId))[k].ruleId]

----------------------------------------------------------------------------
(* reporters/json-reporter.ts *)

\* variant: a rule with nothing applicable scores 0
PercentZeroWhenEmpty(part, total) ==
    IF total > 0 THEN [num |-> part * 100, den |-> total] ELSE [num |-> 0, den |-> 1]

\* A percentage, as the exact value of the division the code performs.
Percent(part, total) ==
    IF total > 0 THEN [num |-> part * 100, den |-> total] ELSE [num |-> 100, den |-> 1]

RatEq(a, b) == a.num * b.den = b.num * a.den

\* component.ruleStatuses.find(rs => rs.ruleId === ruleId): the statuses found
FoundStatus(c, ruleId) == SelectSeq(c.ruleStatuses, LAMBDA rs : rs.ruleId = ruleId)

StatusOf(c, ruleId) ==
    IF FoundStatus(c, ruleId) = <<>> THEN "none" ELSE Head(FoundStatus(c, ruleId)).status

\* variant: NOT_APPLICABLE statuses are counted into the denominator
calculateRuleStatsCountingNA(components, ruleId, ruleName) ==
    LET passed == Cardinality({ k \in DOMAIN components : StatusOf(components[k], ruleId) = "PASSED" })
        failedN == Cardinality({ k \in DOMAIN components : StatusOf(components[k], ruleId) = "FAILED" })
        notApplicable == Cardinality({ k \in DOMAIN components : StatusOf(components[k], ruleId) = "NOT_APPLICABLE" })
    IN  [ruleId |-> ruleId,
         ruleName |-> ruleName,
         passed |-> passed,
         failed |-> failedN,
         notApplicable |-> notApplicable,
         totalApplicable |-> passed + failedN + notApplicable,
         conformityPercent |-> Percent(passed, passed + failedN + notApplicable)]

calculateRuleStats(components, ruleId, ruleName) ==
    LET passed == Cardinality({ k \in DOMAIN components : StatusOf(components[k], ruleId) = "PASSED" })
        failedN == Cardinality({ k \in DOMAIN components : StatusOf(components[k], ruleId) = "FAILED" })
        notApplicable == Cardinality({ k \in DOMAIN components : StatusOf(components[k], ruleId) = "NOT_APPLICABLE" })
    IN  [ruleId |-> ruleId,
         ruleName |-> ruleName,
         passed |-> passed,
         failed |-> failedN,
         notApplicable |-> notApplicable,
         totalApplicable |-> passed + failedN,
         conformityPercent |-> Percent(passed, passed + failedN)]

RatAdd(a, b) == [num |-> a.num * b.den + b.num * a.den, den |-> a.den * b.den]

RECURSIVE RatSum(_)
RatSum(s) == IF s = <<>> THEN [num |-> 0, den |-> 1] ELSE RatAdd(Head(s), RatSum(Tail(s)))

\* variant: the arithmetic mean of the per-rule percentages
calculateOverallConformityMean(ruleStats) ==
    IF ruleStats = <<>> THEN [num |-> 100, den |-> 1]
    ELSE [num |-> RatSum([k \in DOMAIN ruleStats |-> ruleStats[k].conformityPercent]).num,
          den |-> RatSum([k \in DOMAIN ruleStats |-> ruleStats[k].conformityPercent]).den
                  * Len(ruleStats)]

calculateOverallConformity(ruleStats) ==
    Percent(SumSeq([k \in DOMAIN ruleStats |-> ruleStats[k].passed]),
            SumSeq([k \in DOMAIN ruleStats |-> ruleStats[k].totalApplicable]))

RECURSIVE Flatten(_)
Flatten(ss) == IF ss = <<>> THEN <<>> ELSE Head(ss) \o Flatten(Tail(ss))

\* every violation of every component, in iteration order
AllViolations(components) == Flatten([k \in DOMAIN components |-> components[k].violations])

\* variant: byRule after the grouping loop alone
ByRuleWithoutFill(components, rules) ==
    [r \in { v.ruleId : v \in Range(AllViolations(components)) } |->
        Len(ViolationsForRule(AllViolations(components), r))]

\* byRule after the grouping loop and the fill-in loop
ByRule(components, rules) ==
    [r \in { v.ruleId : v \in Range(AllViolations(components)) } \cup Range(rules) |->
        Len(ViolationsForRule(AllViolations(components), r))]

\* ruleNames[rule] || rule: the name carried by the last violation of the rule
RuleNameOf(components, rule) ==
    LET vs == ViolationsForRule(AllViolations(components), rule)
    IN  IF vs # <<>> /\ vs[Len(vs)].ruleName # "" THEN vs[Len(vs)].ruleName ELSE rule

generateReport(components, rules) ==
    LET componentsWithViolations == Cardinality({ k \in DOMAIN components : Len(components[k].violations) > 0 })
        ruleStatistics ==
            [k \in DOMAIN rules |->
                calculateRuleStats(components, rules[k], RuleNameOf(components, rules[k]))]
    IN  [scope |-> [componentsScanned |-> Len(components),
                    componentsWithViolations |-> componentsWithViolations,
                    rulesApplied |-> rules],
         components |-> components,
         summary |-> [totalComponents |-> Len(components),
                      componentsWithViolations |-> componentsWithViolations,
                      totalViolations |-> Len(AllViolations(components)),
                      overallConformityPercent |-> calculateOverallConformity(ruleStatistics),
                      byRule |-> ByRule(components, rules),
                      ruleStatistics |-> ruleStatistics]]

NoReport == [scope |-> "none"]

----------------------------------------------------------------------------
(* audit: runAudit *)

\* position of the next registry entry at or after k that is configured
\* (the loop body "continue"s over the others)
\* variant: no registry entry is skipped
NextSelectedEveryEntry(k, rules) == k

RECURSIVE NextSelected(_, _)
NextSelected(k, rules) ==
    IF k > Len(VALIDATORS) THEN k
    ELSE IF Includes(rules, VALIDATORS[k].ruleId) THEN k
         ELSE NextSelected(k + 1, rules)

\* The validator loop of one iteration: every configured registry entry is
\* called in registry order, and one that raises adds nothing.
runValidators(c, rules) ==
    Flatten([n \in DOMAIN VALIDATORS |->
                IF Includes(rules, VALIDATORS[n].ruleId) /\ ~Throws(VALIDATORS[n], c)
                THEN Validate(VALIDATORS[n], c)
                ELSE <<>>])

\* The body of the loop over componentMetadata for a file that parses, as the
\* result it pushes.
auditComponent(p, tree, rules) ==
    LET c == parseVueFile(p, tree.content[p].text)
    IN  [name |-> c.name,
         path |-> p,
         violations |-> runValidators(c, rules),
         ruleStatuses |-> buildRuleStatuses(runValidators(c, rules), rules)]

\* outside the runs that use them
NoPar == [phase |-> "off"]

NoCall == [static |-> "", log |-> <<>>]

NoCli == [phase |-> "off"]

Init ==
    /\ config \in Configs
    /\ \E S \in SUBSET (1..MaxPaths) :
          \/ fs \in [rootReadable : {TRUE}, listing : Listings(S), content : [S -> Files],
                      node : {[p \in S |-> VueFileNode]}]
          \/ fs \in [rootReadable : {FALSE}, listing : Listings(S),
                      content : [S -> {UnreadableFile}],
                      node : {[p \in S |-> VueFileNode]}]
    /\ pc = "init"
    /\ componentMetadata = <<>>
    /\ rulesApplied = <<>>
    /\ idx = 1
    /\ component = NoComponent
    /\ vpos = 1
    /\ violations = <<>>
    /\ results = <<>>
    /\ parsed = 0
    /\ failed = 0
    /\ extracted = <<>>
    /\ report = NoReport
    /\ par = NoPar
    /\ call = NoCall
    /\ cli = NoCli

\* runAudit entered: startTime taken
Start ==
    /\ pc = "init"
    /\ pc' = "scan"
    /\ UNCHANGED <<config, fs, componentMetadata, rulesApplied, idx, component, vpos,
                   violations, results, parsed, failed, extracted, report, par, call, cli>>

\* Step 1: scanComponents, then the accumulators and rulesApplied are set up
Scan ==
    /\ pc = "scan"
    /\ componentMetadata' = scanComponents(fs)
    /\ results' = <<>>
    /\ parsed' = 0
    /\ failed' = 0
    /\ rulesApplied' = SelectRules(config)
    /\ idx' = 1
    /\ pc' = "loop"
    /\ UNCHANGED <<config, fs, component, vpos, violations, extracted, report, par, call, cli>>

\* parseVueFile(metadata.path) returns
ExtractOk ==
    /\ pc = "loop"
    /\ idx <= Len(componentMetadata)
    /\ fs.content[componentMetadata[idx].path].readable
    /\ component' = parseVueFile(componentMetadata[idx].path,
                                 fs.content[componentMetadata[idx].path].text)
    /\ violations' = <<>>
    /\ vpos' = NextSelected(1, rulesApplied)
    /\ extracted' = Append(extracted, componentMetadata[idx].path)
    /\ pc' = "validate"
    /\ UNCHANGED <<config, fs, componentMetadata, rulesApplied, idx, results, parsed,
                   failed, report, par, call, cli>>

\* variant: the failure ends the loop
ExtractFailAborts ==
    /\ pc = "loop"
    /\ idx <= Len(componentMetadata)
    /\ ~fs.content[componentMetadata[idx].path].readable
    /\ failed' = failed + 1
    /\ idx' = Len(componentMetadata) + 1
    /\ extracted' = Append(extracted, componentMetadata[idx].path)
    /\ UNCHANGED <<config, fs, pc, componentMetadata, rulesApplied, component, vpos,
                   violations, results, parsed, report, par, call, cli>>

\* parseVueFile(metadata.path) raises: outer catch
ExtractFail ==
    /\ pc = "loop"
    /\ idx <= Len(componentMetadata)
    /\ ~fs.content[componentMetadata[idx].path].readable
    /\ failed' = failed + 1
    /\ idx' = idx + 1
    /\ extracted' = Append(extracted, componentMetadata[idx].path)
    /\ UNCHANGED <<config, fs, pc, componentMetadata, rulesApplied, component, vpos,
                   violations, results, parsed, report, par, call, cli>>

\* a configured validator returns its violations
ValidatorReturns ==
    /\ pc = "validate"
    /\ vpos <= Len(VALIDATORS)
    /\ ~Throws(VALIDATORS[vpos], component)
    /\ violations' = violations \o Validate(VALIDATORS[vpos], component)
    /\ vpos' = NextSelected(vpos + 1, rulesApplied)
    /\ UNCHANGED <<config, fs, pc, componentMetadata, rulesApplied, idx, component,
                   results, parsed, failed, extracted, report, par, call, cli>>

\* variant: no inner try, the error reaches the outer catch
ValidatorThrowsAborts ==
    /\ pc = "validate"
    /\ vpos <= Len(VALIDATORS)
    /\ Throws(VALIDATORS[vpos], component)
    /\ failed' = failed + 1
    /\ idx' = idx + 1
    /\ component' = NoComponent
    /\ violations' = <<>>
    /\ vpos' = 1
    /\ pc' = "loop"
    /\ UNCHANGED <<config, fs, componentMetadata, rulesApplied, results, parsed,
                   extracted, report, par, call, cli>>

\* a configured validator raises: inner catch
ValidatorThrows ==
    /\ pc = "validate"
    /\ vpos <= Len(VALIDATORS)
    /\ Throws(VALIDATORS[vpos], component)
    /\ vpos' = NextSelected(vpos + 1, rulesApplied)
    /\ UNCHANGED <<config, fs, pc, componentMetadata, rulesApplied, idx, component,
                   violations, results, parsed, failed, extracted, report, par, call, cli>>

\* variant: the result is put in front of the accumulated results
PushResultPrepends ==
    /\ pc = "validate"
    /\ vpos > Len(VALIDATORS)
    /\ results' = << [name |-> component.name,
                      path |-> componentMetadata[idx].path,
                      violations |-> violations,
                      ruleStatuses |-> buildRuleStatuses(violations, rulesApplied)] >>
                  \o results
    /\ parsed' = parsed + 1
    /\ idx' = idx + 1
    /\ component' = NoComponent
    /\ violations' = <<>>
    /\ vpos' = 1
    /\ pc' = "loop"
    /\ UNCHANGED <<config, fs, componentMetadata, rulesApplied, failed, extracted, report,
                   par, call, cli>>

\* after the validators: buildRuleStatuses, results.push, parsed++
PushResult ==
    /\ pc = "validate"
    /\ vpos > Len(VALIDATORS)
    /\ results' = Append(results,
                         [name |-> component.name,
                          path |-> componentMetadata[idx].path,
                          violations |-> violations,
                          ruleStatuses |-> buildRuleStatuses(violations, rulesApplied)])
    /\ parsed' = parsed + 1
    /\ idx' = idx + 1
    /\ component' = NoComponent
    /\ violations' = <<>>
    /\ vpos' = 1
    /\ pc' = "loop"
    /\ UNCHANGED <<config, fs, componentMetadata, rulesApplied, failed, extracted, report,
                   par, call, cli>>

\* the for-of loop over componentMetadata is exhausted
LoopExit ==
    /\ pc = "loop"
    /\ idx > Len(componentMetadata)
    /\ pc' = "aggregate"
    /\ UNCHANGED <<config, fs, componentMetadata, rulesApplied, idx, component, vpos,
                   violations, results, parsed, failed, extracted, report, par, call, cli>>

\* Step 3: reporter.generateReport(results, rulesApplied, ...), then return
Aggregate ==
    /\ pc = "aggregate"
    /\ report' = generateReport(results, rulesApplied)
    /\ pc' = "done"
    /\ UNCHANGED <<config, fs, componentMetadata, rulesApplied, idx, component, vpos,
                   violations, results, parsed, failed, extracted, par, call, cli>>

Next ==
    \/ Start
    \/ Scan
    \/ ExtractOk
    \/ ExtractFail
    \/ ValidatorReturns
    \/ ValidatorThrows
    \/ PushResult
    \/ LoopExit
    \/ Aggregate

Spec == Init /\ [][Next]_vars

\* runAudit is one sequential function: every enabled step is eventually taken
FairSpec == Spec /\ WF_vars(Next)

----------------------------------------------------------------------------
(* runAudit under configurations that carry a componentTypes list *)

\* The example configurations: every type, and the strict one.
TypedConfigs ==
    { [rules |-> <<"1.1.1", "2.4.1">>,
       componentTypes |-> <<"Page", "Section", "Item", "Modal">>],
      [rules |-> <<"1.1.1", "2.4.1">>, componentTypes |-> <<"Item", "Modal">>] }

TypedInit ==
    /\ config \in TypedConfigs
    /\ \E S \in SUBSET (1..MaxPaths) :
          \/ fs \in [rootReadable : {TRUE}, listing : Listings(S), content : [S -> Files],
                      node : {[p \in S |-> VueFileNode]}]
          \/ fs \in [rootReadable : {FALSE}, listing : Listings(S),
                      content : [S -> {UnreadableFile}],
                      node : {[p \in S |-> VueFileNode]}]
    /\ pc = "init"
    /\ componentMetadata = <<>>
    /\ rulesApplied = <<>>
    /\ idx = 1
    /\ component = NoComponent
    /\ vpos = 1
    /\ violations = <<>>
    /\ results = <<>>
    /\ parsed = 0
    /\ failed = 0
    /\ extracted = <<>>
    /\ report = NoReport
    /\ par = NoPar
    /\ call = NoCall
    /\ cli = NoCli

TypedSpec == TypedInit /\ [][Next]_vars

----------------------------------------------------------------------------
(* generateReport on arbitrary component results *)

ReportRules == <<"1.1.1", "2.4.1">>

RuleNameInRegistry(ruleId) ==
    VALIDATORS[CHOOSE k \in DOMAIN VALIDATORS : VALIDATORS[k].ruleId = ruleId].ruleName

\* One component result: per rule of ReportRules a status, or "none" for no entry;
\* a FAILED status comes with one violation of that rule.
ComponentResultOf(p, ch) ==
    [name |-> Stem(p),
     path |-> p,
     violations |->
        Flatten([k \in DOMAIN ReportRules |->
                    IF ch[k] = "FAILED"
                    THEN << [ruleId |-> ReportRules[k],
                             ruleName |-> RuleNameInRegistry(ReportRules[k]),
                             severity |-> "error", issue |-> "finding"] >>
                    ELSE <<>>]),
     ruleStatuses |->
        Flatten([k \in DOMAIN ReportRules |->
                    IF ch[k] = "none" THEN <<>>
                    ELSE << [ruleId |-> ReportRules[k], status |-> ch[k],
                             violationCount |-> IF ch[k] = "FAILED" THEN 1 ELSE 0] >>])]

StatusChoices == [DOMAIN ReportRules -> {"PASSED", "FAILED", "NOT_APPLICABLE", "none"}]

\* Rule 1.1.1 at 1 passed of 1 applicable, rule 2.4.1 at 1 passed of 10 applicable.
WeightingScenario ==
    [p \in 1..10 |->
        ComponentResultOf(p, IF p = 1 THEN <<"PASSED", "PASSED">>
                                      ELSE <<"NOT_APPLICABLE", "FAILED">>)]

ReportInit ==
    /\ config = [rules |-> ReportRules]
    /\ fs = [rootReadable |-> TRUE, listing |-> <<>>, content |-> <<>>, node |-> <<>>]
    /\ pc = "aggregate"
    /\ componentMetadata = <<>>
    /\ rulesApplied = ReportRules
    /\ idx = 1
    /\ component = NoComponent
    /\ vpos = 1
    /\ violations = <<>>
    /\ \/ \E n \in 0..MaxReportComponents :
             \E chs \in [1..n -> StatusChoices] :
                results = [p \in 1..n |-> ComponentResultOf(p, chs[p])]
       \/ results = WeightingScenario
    /\ parsed = Len(results)
    /\ failed = 0
    /\ extracted = <<>>
    /\ report = NoReport
    /\ par = NoPar
    /\ call = NoCall
    /\ cli = NoCli

NextReport == Aggregate

ReportSpec == ReportInit /\ [][NextReport]_vars

----------------------------------------------------------------------------
(* runAudit with the loop body run per component in any completion order *)

\* After the sequential run has returned, the same scan result is processed
\* again: a component is started at any time, components in flight complete
\* in any order, and the results are sorted by path before generateReport.
ParBegin ==
    /\ pc = "done"
    /\ par = NoPar
    /\ par' = [phase |-> "run", pending |-> DOMAIN componentMetadata, running |-> {},
               completed |-> <<>>, results |-> <<>>, failed |-> 0, report |-> NoReport]
    /\ UNCHANGED <<config, fs, pc, componentMetadata, rulesApplied, idx, component, vpos,
                   violations, results, parsed, failed, extracted, report, call, cli>>

ParStart ==
    /\ par.phase = "run"
    /\ \E k \in par.pending :
          par' = [par EXCEPT !.pending = @ \ {k}, !.running = @ \cup {k}]
    /\ UNCHANGED <<config, fs, pc, componentMetadata, rulesApplied, idx, component, vpos,
                   violations, results, parsed, failed, extracted, report, call, cli>>

ParComplete ==
    /\ par.phase = "run"
    /\ \E k \in par.running :
          /\ fs.content[componentMetadata[k].path].readable
          /\ par' = [par EXCEPT
                        !.running = @ \ {k},
                        !.completed = Append(@, componentMetadata[k].path),
                        !.results = Append(@, auditComponent(componentMetadata[k].path,
                                                             fs, rulesApplied))]
    /\ UNCHANGED <<config, fs, pc, componentMetadata, rulesApplied, idx, component, vpos,
                   violations, results, parsed, failed, extracted, report, call, cli>>

ParFail ==
    /\ par.phase = "run"
    /\ \E k \in par.running :
          /\ ~fs.content[componentMetadata[k].path].readable
          /\ par' = [par EXCEPT
                        !.running = @ \ {k},
                        !.completed = Append(@, componentMetadata[k].path),
                        !.failed = @ + 1]
    /\ UNCHANGED <<config, fs, pc, componentMetadata, rulesApplied, idx, component, vpos,
                   violations, results, parsed, failed, extracted, report, call, cli>>

ParSort ==
    /\ par.phase = "run"
    /\ par.pending = {}
    /\ par.running = {}
    /\ par' = [par EXCEPT !.phase = "sorted", !.results = SortByPath(@)]
    /\ UNCHANGED <<config, fs, pc, componentMetadata, rulesApplied, idx, component, vpos,
                   violations, results, parsed, failed, extracted, report, call, cli>>

ParAggregate ==
    /\ par.phase = "sorted"
    /\ par' = [par EXCEPT !.phase = "done",
                          !.report = generateReport(par.results, rulesApplied)]
    /\ UNCHANGED <<config, fs, pc, componentMetadata, rulesApplied, idx, component, vpos,
                   violations, results, parsed, failed, extracted, report, call, cli>>

NextPar ==
    \/ Start
    \/ Scan
    \/ ExtractOk
    \/ ExtractFail
    \/ ValidatorReturns
    \/ ValidatorThrows
    \/ PushResult
    \/ LoopExit
    \/ Aggregate
    \/ ParBegin
    \/ ParStart
    \/ ParComplete
    \/ ParFail
    \/ ParSort
    \/ ParAggregate

ParSpec == Init /\ [][NextPar]_vars

----------------------------------------------------------------------------
(* scanComponents on a directory tree *)

\* What an entry of the tree can be: a file whose name ends with .vue, any
\* other file, an entry statSync raises on (a dangling link), a directory
\* readdirSync lists, a directory readdirSync raises on.
NodeKinds == {"vue", "other", "broken", "dir", "lockedDir"}

NodeOf(kind, listing) ==
    [kind |-> IF kind \in {"dir", "lockedDir"} THEN "dir" ELSE "file",
     statOk |-> kind # "broken",
     vue |-> kind = "vue",
     readable |-> kind = "dir",
     listing |-> listing]

\* Entries 1..n, entry p inside directory parent[p] (0: the root directory),
\* each directory's readdirSync order taken from one order of all entries.
TreeOf(rootReadable, kind, parent, order) ==
    [rootReadable |-> rootReadable,
     listing |-> SelectSeq(order, LAMBDA q : parent[q] = 0),
     content |-> [p \in DOMAIN kind |-> UnreadableFile],
     node |-> [p \in DOMAIN kind |->
                  NodeOf(kind[p], SelectSeq(order, LAMBDA q : parent[q] = p))]]

ScanInit ==
    /\ config = [rules |-> <<"2.4.1">>]
    /\ \E n \in 0..MaxNodes :
          \E kind \in [1..n -> NodeKinds], parent \in [1..n -> 0..n],
             order \in Listings(1..n), rootReadable \in BOOLEAN :
             /\ \A p \in 1..n :
                   /\ parent[p] < p
                   /\ parent[p] # 0 => kind[parent[p]] \in {"dir", "lockedDir"}
             /\ fs = TreeOf(rootReadable, kind, parent, order)
    /\ pc = "scan"
    /\ componentMetadata = <<>>
    /\ rulesApplied = <<>>
    /\ idx = 1
    /\ component = NoComponent
    /\ vpos = 1
    /\ violations = <<>>
    /\ results = <<>>
    /\ parsed = 0
    /\ failed = 0
    /\ extracted = <<>>
    /\ report = NoReport
    /\ par = NoPar
    /\ call = NoCall
    /\ cli = NoCli

NextScan == Scan

ScanSpec == ScanInit /\ [][NextScan]_vars

----------------------------------------------------------------------------
(* vue-parser on the text of a file *)

\* A file's content is a sequence of tokens: what the section patterns of
\* parseVueFile read, or what the export pattern of extractComponentName reads.
SectionTokens == {"<template>", "</template>", "<script>", "</script>", "text"}

ExportTokens == {"export default {", "name: 'Card'", "name: 'my-card'", "text"}

\* name: '...' tokens whose value the group ([\w]+) between quotes matches
WordNameTokens == {"name: 'Card'"}

NameValue(token) == IF token = "name: 'Card'" THEN <<"Card">> ELSE <<"my", "-", "card">>

\* Characters of a file name before .vue: a letter, a digit, and two
\* characters outside [A-Za-z0-9].
StemChars == {"a", "7", "-", "_"}

AlnumChars == {"a", "7"}

Seqs(S, n) == UNION { [1..k -> S] : k \in 0..n }

Min(S) == CHOOSE x \in S : \A y \in S : x <= y

Max(S) == CHOOSE x \in S : \A y \in S : x >= y

NoMatch == [matched |-> FALSE, group |-> <<>>]

\* positions where a match of  open [\s\S]*? close  can start
MatchStarts(content, open, closes) ==
    { i \in DOMAIN content :
        content[i] = open /\ \E j \in DOMAIN content : j > i /\ content[j] \in closes }

\* variant: the group runs to the last closing marker (greedy [\s\S]*)
matchSectionGreedy(content, open, close) ==
    IF MatchStarts(content, open, {close}) = {} THEN NoMatch
    ELSE LET i == Min(MatchStarts(content, open, {close}))
             j == Max({ k \in DOMAIN content : k > i /\ content[k] = close })
         IN  [matched |-> TRUE, group |-> SubSeq(content, i + 1, j - 1)]

\* content.match(/<open[^>]*>([\s\S]*?)<\/close>/): the leftmost match, its
\* group as short as possible
matchSection(content, open, close) ==
    IF MatchStarts(content, open, {close}) = {} THEN NoMatch
    ELSE LET i == Min(MatchStarts(content, open, {close}))
             j == Min({ k \in DOMAIN content : k > i /\ content[k] = close })
         IN  [matched |-> TRUE, group |-> SubSeq(content, i + 1, j - 1)]

templateMatch(content) == matchSection(content, "<template>", "</template>")

scriptMatch(content) == matchSection(content, "<script>", "</script>")

\* content.match(/export\s+default\s+{[\s\S]*?name:\s*['"]([\w]+)['"]/)
exportMatch(content) ==
    IF MatchStarts(content, "export default {", WordNameTokens) = {} THEN NoMatch
    ELSE LET i == Min(MatchStarts(content, "export default {", WordNameTokens))
             j == Min({ k \in DOMAIN content : k > i /\ content[k] \in WordNameTokens })
         IN  [matched |-> TRUE, group |-> NameValue(content[j])]

\* filePath.match(/([A-Za-z0-9]+)\.vue$/) on a path ending with stem.vue: the
\* group is the longest run of [A-Za-z0-9] that ends the stem
fileNameMatch(stem) ==
    LET runs == { k \in 1..Len(stem) :
                    \A m \in (Len(stem) - k + 1)..Len(stem) : stem[m] \in AlnumChars }
    IN  IF runs = {} THEN NoMatch
        ELSE [matched |-> TRUE,
              group |-> SubSeq(stem, Len(stem) - Max(runs) + 1, Len(stem))]

extractComponentNameText(stem, content) ==
    IF exportMatch(content).matched /\ exportMatch(content).group # <<>>
    THEN exportMatch(content).group
    ELSE IF fileNameMatch(stem).matched THEN fileNameMatch(stem).group
         ELSE <<"UnknownComponent">>

\* parseVueFile on a file that readFileSync reads
parseVueFileText(stem, content) ==
    [name |-> extractComponentNameText(stem, content),
     path |-> stem,
     template |-> IF templateMatch(content).matched THEN templateMatch(content).group
                  ELSE <<>>,
     script |-> IF scriptMatch(content).matched THEN scriptMatch(content).group
                ELSE <<>>]

----------------------------------------------------------------------------
(* validators/1.1.1-alt-text on markup *)

\* An <img> tag, by what the patterns of checkImageAltText read in it:
\*   alt         "missing": no alt="..."; else its value is "", " " or "photo"
\*   ariaLabel   aria-label="..." present
\*   decorative  role="presentation" or aria-hidden="true" present
\* The template holds its <img> tags on lines 1..n, then its <svg> elements,
\* then its icon-only buttons, one per line.
ImgTags == [alt : {"missing", "empty", "blank", "text"}, ariaLabel : BOOLEAN,
            decorative : BOOLEAN]

\* group 1 of /alt=["']([^"']*)["']/ on a tag that has alt
AltValue(tag) == CASE tag.alt = "empty" -> ""
                   [] tag.alt = "blank" -> " "
                   [] OTHER -> "photo"

\* value.trim().length
TrimLength(value) == IF value \in {"", " "} THEN 0 ELSE Len(value)

\* <svg>: named by a <title> or an aria-label(ledby), decorative or not;
\* icon-only <button>: labelled by aria-label or <title>, or not
SvgTags == [named : BOOLEAN, decorative : BOOLEAN]

ButtonTags == [labelled : BOOLEAN]

Violation1_1_1(severity, line, issue) ==
    [ruleId |-> "1.1.1", ruleName |-> "Non-text Content", severity |-> severity,
     line |-> line, issue |-> issue]

\* The while loop of checkImageAltText from the k-th <img> on.  static is
\* RegExp.$1: imgRegex.exec matching (no group) empties it, the alt test
\* sets it when it matches and leaves it when it does not, altValue is read
\* from it, and the aria-label and decorative tests set it when they match.
RECURSIVE imgLoop(_, _, _, _)
imgLoop(imgs, k, static, found) ==
    IF k > Len(imgs) THEN [violations |-> found, static |-> static]
    ELSE LET tag == imgs[k]
             hasAlt == tag.alt # "missing"
             altValue == IF hasAlt THEN AltValue(tag) ELSE ""
             after == IF tag.decorative THEN ""
                      ELSE IF tag.ariaLabel THEN "label" ELSE altValue
         IN  IF tag.decorative
             THEN (IF hasAlt /\ TrimLength(altValue) > 0
                   THEN imgLoop(imgs, k + 1, after,
                                Append(found, Violation1_1_1("warning", k,
                                           "Decorative image has non-empty alt text")))
                   ELSE imgLoop(imgs, k + 1, after, found))
             ELSE IF ~hasAlt /\ ~tag.ariaLabel
             THEN imgLoop(imgs, k + 1, after,
                          Append(found, Violation1_1_1("error", k,
                                     "Image missing alt attribute")))
             ELSE IF hasAlt /\ TrimLength(altValue) = 0
             THEN imgLoop(imgs, k + 1, after,
                          Append(found, Violation1_1_1("error", k,
                                     "Image has empty alt attribute")))
             ELSE imgLoop(imgs, k + 1, after, found)

\* variant: an image is reported once for the missing alt and once for the
\* missing aria-label
checkImageAltTextReportsTwice(template, static) ==
    LET r == imgLoop(template.imgs, 1, static, <<>>)
    IN  [violations |->
            Flatten([k \in DOMAIN r.violations |->
                        IF r.violations[k].issue = "Image missing alt attribute"
                        THEN <<r.violations[k], r.violations[k]>>
                        ELSE <<r.violations[k]>>]),
         static |-> r.static]

checkImageAltText(template, static) == imgLoop(template.imgs, 1, static, <<>>)

\* svgRegex.exec puts the content of the element in RegExp.$1, and each of
\* the four tests that matches empties it
checkSvgAltText(template, static) ==
    [violations |->
        Flatten([k \in DOMAIN template.svgs |->
                    IF ~template.svgs[k].decorative /\ ~template.svgs[k].named
                    THEN << Violation1_1_1("error", Len(template.imgs) + k,
                                           "SVG missing accessible name") >>
                    ELSE <<>>]),
     static |-> IF template.svgs = <<>> THEN static
                ELSE IF template.svgs[Len(template.svgs)].decorative
                        \/ template.svgs[Len(template.svgs)].named
                THEN "" ELSE "content"]

\* iconButtonRegex has no group: its match empties RegExp.$1
checkIconButtonLabels(template, static) ==
    [violations |->
        Flatten([k \in DOMAIN template.buttons |->
                    IF ~template.buttons[k].labelled
                    THEN << Violation1_1_1("error",
                                           Len(template.imgs) + Len(template.svgs) + k,
                                           "Icon-only button missing accessible name") >>
                    ELSE <<>>]),
     static |-> IF template.buttons = <<>> THEN static ELSE ""]

validate1_1_1(template, static) ==
    LET images == checkImageAltText(template, static)
        svgs == checkSvgAltText(template, images.static)
        buttons == checkIconButtonLabels(template, svgs.static)
    IN  [violations |-> images.violations \o svgs.violations \o buttons.violations,
         static |-> buttons.static]

----------------------------------------------------------------------------
(* validators/3.2.4-consistent-identification on markup *)

\* A template line, by what the patterns read on it: the text of its first
\* <button>...</button> and of its first <a>...</a> ("" when there is none),
\* and, on a line the icon pattern matches, the action its words stand for
\* and its class attribute ("unknown" without one).
ButtonLabels == {"Save", " Save ", "SAVE", "Delete", "DELETE", "More"}

LinkLabels == {"Delete", " Delete "}

NoIcon == [action |-> "", class |-> ""]

Icons == [action : {"close", "save"}, class : {"icon-a", "icon-b", "unknown"}]

Lines3_2_4 ==
    [button : ButtonLabels \cup {""}, link : LinkLabels \cup {""}, icon : {NoIcon}]
    \cup [button : {""}, link : {""}, icon : Icons]

ToLowerCase(str) ==
    CASE str = "Save" -> "save"
      [] str = " Save " -> " save "
      [] str = "SAVE" -> "save"
      [] str = "Delete" -> "delete"
      [] str = " Delete " -> " delete "
      [] str = "DELETE" -> "delete"
      [] str = "More" -> "more"
      [] OTHER -> str

Trim(str) ==
    CASE str = " Save " -> "Save"
      [] str = " save " -> "save"
      [] str = " Delete " -> "Delete"
      [] str = " delete " -> "delete"
      [] OTHER -> str

\* /^(save|delete|close|cancel|submit|next|back|previous|continue|done|ok)$/i
ButtonActions == {"save", "delete", "close", "cancel", "submit", "next", "back",
                  "previous", "continue", "done", "ok"}

\* /^(close|cancel|delete|back|previous)$/
LinkActions == {"close", "cancel", "delete", "back", "previous"}

\* One of the two branches of the forEach callback of detectInconsistentLabels:
\* text is buttonMatch[1] or linkMatch[1], seen is commonActions.
labelStep(seen, found, text, actions, lineNo) ==
    LET label == Trim(ToLowerCase(text))
    IN  IF text = "" \/ label \notin actions THEN [seen |-> seen, found |-> found]
        ELSE IF label \in DOMAIN seen
        THEN [seen |-> seen,
              found |->
                 IF ToLowerCase(text) # ToLowerCase(seen[label].label)
                 THEN Append(found,
                             [type |-> "inconsistent-labels",
                              issue |-> [action |-> label,
                                         previousLabel |-> seen[label].label,
                                         previousLine |-> seen[label].line,
                                         nowLabel |-> text,
                                         nowLine |-> lineNo],
                              line |-> lineNo,
                              severity |-> "warning"])
                 ELSE found]
        ELSE [seen |-> (label :> [label |-> text, line |-> lineNo]) @@ seen,
              found |-> found]

\* RegExp.$1 after the callback ran on a line: the two exec calls set it to
\* the texts they capture, the action tests to the action they match.
StaticAfterLabels(line, static) ==
    IF line.link # "" /\ Trim(ToLowerCase(line.link)) \in LinkActions
    THEN Trim(ToLowerCase(line.link))
    ELSE IF line.button # "" /\ Trim(ToLowerCase(line.button)) \in ButtonActions
    THEN Trim(ToLowerCase(line.button))
    ELSE IF line.link # "" THEN line.link
    ELSE IF line.button # "" THEN line.button
    ELSE static

RECURSIVE labelLoop(_, _, _, _, _)
labelLoop(lines, lineIdx, seen, static, found) ==
    IF lineIdx > Len(lines) THEN [violations |-> found, static |-> static]
    ELSE LET b == labelStep(seen, found, lines[lineIdx].button, ButtonActions, lineIdx)
             a == labelStep(b.seen, b.found, lines[lineIdx].link, LinkActions, lineIdx)
         IN  labelLoop(lines, lineIdx + 1, a.seen, StaticAfterLabels(lines[lineIdx], static),
                       a.found)

\* variant: an action RegExp.$1 still holds from an earlier match counts as
\* already used, with that text as its label
detectInconsistentLabelsStale(template, static) ==
    labelLoop(template, 1,
              IF static \in ButtonActions
              THEN (static :> [label |-> static, line |-> 0]) ELSE <<>>,
              static, <<>>)

\* commonActions is a new Map of each call
detectInconsistentLabels(template, static) == labelLoop(template, 1, <<>>, static, <<>>)

RECURSIVE iconLoop(_, _, _, _, _)
iconLoop(lines, lineIdx, iconUsage, static, found) ==
    IF lineIdx > Len(lines) THEN [violations |-> found, static |-> static]
    ELSE LET icon == lines[lineIdx].icon
         IN  IF icon = NoIcon THEN iconLoop(lines, lineIdx + 1, iconUsage, static, found)
             ELSE IF icon.action \in DOMAIN iconUsage
             THEN iconLoop(lines, lineIdx + 1, iconUsage,
                           IF icon.class # "unknown" THEN icon.class ELSE "",
                           IF icon.class # iconUsage[icon.action].icon
                              /\ icon.class # "unknown"
                           THEN Append(found,
                                       [type |-> "inconsistent-icons",
                                        issue |-> [action |-> icon.action,
                                                   previousLabel |->
                                                       iconUsage[icon.action].icon,
                                                   previousLine |->
                                                       iconUsage[icon.action].line,
                                                   nowLabel |-> icon.class,
                                                   nowLine |-> lineIdx],
                                        line |-> lineIdx,
                                        severity |-> "warning"])
                           ELSE found)
             ELSE IF icon.class # "unknown"
             THEN iconLoop(lines, lineIdx + 1,
                           (icon.action :> [icon |-> icon.class, line |-> lineIdx])
                               @@ iconUsage,
                           icon.class, found)
             ELSE iconLoop(lines, lineIdx + 1, iconUsage, "", found)

\* iconUsage is a new Map of each call
detectInconsistentIcons(template, static) == iconLoop(template, 1, <<>>, static, <<>>)

validate3_2_4(template, static) ==
    LET labels == detectInconsistentLabels(template, static)
        icons == detectInconsistentIcons(template, labels.static)
    IN  [violations |-> labels.violations \o icons.violations, static |-> icons.static]

----------------------------------------------------------------------------
(* validators/1.3.1: checkHeadingHierarchy on markup *)

\* A template as the pieces headingRegex and the line count tell apart: an
\* opening heading tag of a level, a line break, other text.
HeadingTags == {"<h1>", "<h2>", "<h3>", "<h4>"}

HeadingTokens == HeadingTags \cup {"\n", "text"}

IsHeading(tok) == tok \in HeadingTags

\* parseInt(match[1])
HeadingLevel(tok) ==
    CASE tok = "<h1>" -> 1
      [] tok = "<h2>" -> 2
      [] tok = "<h3>" -> 3
      [] tok = "<h4>" -> 4

\* template.substring(0, match.index).split('\n').length for the match at pos
LineOfMatch(template, pos) ==
    Cardinality({ q \in 1..(pos - 1) : template[q] = "\n" }) + 1

\* the while loop over headingRegex.exec: level and line of every match
Headings(template) ==
    LET at == SelectSeq([q \in DOMAIN template |-> q], LAMBDA q : IsHeading(template[q]))
    IN  [k \in DOMAIN at |-> [level |-> HeadingLevel(template[at[k]]),
                               line |-> LineOfMatch(template, at[k])]]

\* variant: every increase of level is a jump
HeadingJumpAnyIncrease(prevLevel, currentLevel) == currentLevel > prevLevel

\* currentLevel > prevLevel + 1
HeadingJump(prevLevel, currentLevel) == currentLevel > prevLevel + 1

RECURSIVE hierarchyLoop(_, _, _)
hierarchyLoop(headings, i, found) ==
    IF i > Len(headings) THEN found
    ELSE hierarchyLoop(headings, i + 1,
            IF HeadingJump(headings[i - 1].level, headings[i].level)
            THEN Append(found,
                        [ruleId |-> "1.3.1", ruleName |-> "Info and Relationships",
                         severity |-> "warning", line |-> headings[i].line,
                         issue |-> [from |-> headings[i - 1].level,
                                    to |-> headings[i].level]])
            ELSE found)

\* RegExp.$1 is the level of the last heading matched, when there is one
checkHeadingHierarchy(template, static) ==
    [violations |-> hierarchyLoop(Headings(template), 2, <<>>),
     static |-> IF Headings(template) = <<>> THEN static
                ELSE ToString(Headings(template)[Len(Headings(template))].level)]

----------------------------------------------------------------------------
(* validators/2.4.3: focus order on markup *)

\* A template line as the pieces the tabindex patterns tell apart, each with
\* the number of characters it takes: a negative tabindex attribute, a
\* positive one, one character of other text.
TabTokens == {"tabindex=\"-1\"", "tabindex=\"2\"", "x"}

TabLines == Seqs(TabTokens, 2)

TokenLength(tok) ==
    CASE tok = "tabindex=\"-1\"" -> 13
      [] tok = "tabindex=\"2\"" -> 12
      [] tok = "x" -> 1

\* index in the line of the first character of its q-th piece, from 0
RECURSIVE OffsetOf(_, _)
OffsetOf(line, q) == IF q = 1 THEN 0 ELSE OffsetOf(line, q - 1) + TokenLength(line[q - 1])

\* negativeTabindexRegex.test(line) of a pattern with the g flag: the search
\* starts at lastIndex; a match leaves lastIndex behind its last character,
\* a failure leaves 0
testNegativeTabindex(line, lastIndex) ==
    LET hits == { q \in DOMAIN line :
                    line[q] = "tabindex=\"-1\"" /\ OffsetOf(line, q) >= lastIndex }
    IN  IF hits = {} THEN [found |-> FALSE, lastIndex |-> 0]
        ELSE LET q == CHOOSE h \in hits : \A j \in hits : h <= j
             IN  [found |-> TRUE, lastIndex |-> OffsetOf(line, q) + TokenLength(line[q])]

RECURSIVE negativeLoop(_, _, _, _)
negativeLoop(lines, lineIdx, lastIndex, found) ==
    IF lineIdx > Len(lines) THEN found
    ELSE LET t == testNegativeTabindex(lines[lineIdx], lastIndex)
         IN  negativeLoop(lines, lineIdx + 1, t.lastIndex,
                          IF t.found
                          THEN Append(found, [type |-> "negative-tabindex",
                                              issue |-> "Element uses negative tabindex",
                                              line |-> lineIdx,
                                              severity |-> "warning"])
                          ELSE found)

\* the pattern is a new object of each call: lastIndex starts at 0
detectNegativeTabindex(template) == negativeLoop(template, 1, 0, <<>>)

\* [...line.matchAll(positiveTabindexRegex)] searches every line from its start
detectImproperTabindex(template) ==
    LET at == SelectSeq([q \in DOMAIN template |-> q],
                        LAMBDA q : \E j \in DOMAIN template[q] :
                                      template[q][j] = "tabindex=\"2\"")
    IN  [k \in DOMAIN at |-> [type |-> "invalid-tabindex",
                               issue |-> "Element uses explicit positive tabindex",
                               line |-> at[k],
                               severity |-> "error"]]

\* no line of TabLines holds @click
detectPoorTabindexStrategy(template) == <<>>

validate2_4_3(template) ==
    detectNegativeTabindex(template) \o detectImproperTabindex(template)
        \o detectPoorTabindexStrategy(template)

----------------------------------------------------------------------------
(* core/types.ts: extractSvgTitles on markup *)

\* A template as the pieces titleRegex and the line count tell apart: an svg
\* element without a title, one with a title on one line, one whose title is
\* on its second line, a line break, other text.
SvgTitled == {"<svg><title>t</title></svg>", "<svg>\n<title>t</title></svg>"}

SvgElements == SvgTitled \cup {"<svg></svg>"}

SvgTokens == SvgElements \cup {"\n", "text"}

\* number of \n in a piece
NewlinesIn(tok) == IF tok \in {"\n", "<svg>\n<title>t</title></svg>"} THEN 1 ELSE 0

\* (template.substring(0, match.index).match(/\n/g) || []).length for a match
\* that begins with piece q
RECURSIVE NewlinesBefore(_, _)
NewlinesBefore(template, q) ==
    IF q = 1 THEN 0 ELSE NewlinesBefore(template, q - 1) + NewlinesIn(template[q - 1])

\* titleRegex.exec from piece pos on: the match begins with the first <svg
\* and ends with the first </svg> behind the first title behind it
execTitleRegex(template, pos) ==
    LET opens == { q \in DOMAIN template : q >= pos /\ template[q] \in SvgElements }
        titled == { q \in DOMAIN template : q >= pos /\ template[q] \in SvgTitled }
    IN  IF titled = {} THEN NoMatch
        ELSE [from |-> CHOOSE q \in opens : \A j \in opens : q <= j,
              to |-> CHOOSE q \in titled : \A j \in titled : q <= j]

RECURSIVE titleLoop(_, _, _, _)
titleLoop(template, pos, lineNumber, titles) ==
    LET match == execTitleRegex(template, pos)
    IN  IF match = NoMatch THEN titles
        ELSE titleLoop(template, match.to + 1,
                       lineNumber + NewlinesBefore(template, match.from),
                       Append(titles,
                              [line |-> lineNumber + NewlinesBefore(template, match.from),
                               from |-> match.from, to |-> match.to]))

extractSvgTitles(template) == titleLoop(template, 1, 1, <<>>)

----------------------------------------------------------------------------
(* Single invocations of the parser and of the detectors *)

UnitInit ==
    /\ config = [rules |-> <<>>]
    /\ fs = [rootReadable |-> TRUE, listing |-> <<>>, content |-> <<>>, node |-> <<>>]
    /\ pc = "call"
    /\ componentMetadata = <<>>
    /\ rulesApplied = <<>>
    /\ idx = 1
    /\ component = NoComponent
    /\ vpos = 1
    /\ violations = <<>>
    /\ results = <<>>
    /\ parsed = 0
    /\ failed = 0
    /\ extracted = <<>>
    /\ report = NoReport
    /\ par = NoPar
    /\ call \in [static : {"", "stale"}, log : {<<>>}]
    /\ cli = NoCli

\* parseVueFile(filePath) on a file of section markers under a plain name, or
\* on a file of export declarations under any name
CallParseVueFile ==
    /\ pc = "call"
    /\ call.log = <<>>
    /\ \E file \in ([stem : {<<"a">>}, content : Seqs(SectionTokens, MaxTokens)]
                     \cup [stem : Seqs(StemChars, MaxStem),
                           content : Seqs(ExportTokens, MaxTokens)]) :
          call' = [call EXCEPT !.log = Append(@, [fn |-> "parseVueFile",
                                                  arg |-> file,
                                                  static |-> call.static,
                                                  ret |-> parseVueFileText(file.stem,
                                                                           file.content)])]
    /\ UNCHANGED <<config, fs, pc, componentMetadata, rulesApplied, idx, component, vpos,
                   violations, results, parsed, failed, extracted, report, par, cli>>

\* VALIDATORS[1.1.1].validate(component), then buildRuleStatuses with rule
\* 1.1.1 applied
CallValidate1_1_1 ==
    /\ pc = "call"
    /\ call.log = <<>>
    /\ \E template \in [imgs : Seqs(ImgTags, MaxImgs), svgs : Seqs(SvgTags, 1),
                         buttons : Seqs(ButtonTags, 1)] :
          LET r == validate1_1_1(template, call.static)
          IN  call' = [static |-> r.static,
                       log |-> Append(call.log,
                                  [fn |-> "validate1_1_1",
                                   arg |-> template,
                                   static |-> call.static,
                                   ret |-> [violations |-> r.violations,
                                            ruleStatuses |->
                                                buildRuleStatuses(r.violations,
                                                                  <<"1.1.1">>)]])]
    /\ UNCHANGED <<config, fs, pc, componentMetadata, rulesApplied, idx, component, vpos,
                   violations, results, parsed, failed, extracted, report, par, cli>>

\* VALIDATORS[3.2.4].validate(component): validate3_2_4(component.template),
\* each violation through convertViolation
CallValidate3_2_4 ==
    /\ pc = "call"
    /\ call.log = <<>>
    /\ \E template \in Seqs(Lines3_2_4, MaxLines) :
          LET r == validate3_2_4(template, call.static)
          IN  call' = [static |-> r.static,
                       log |-> Append(call.log,
                                  [fn |-> "validate3_2_4",
                                   arg |-> template,
                                   static |-> call.static,
                                   ret |-> [found |-> r.violations,
                                            violations |->
                                               [k \in DOMAIN r.violations |->
                                                   convertViolation("3.2.4",
                                                       "Consistent Identification",
                                                       r.violations[k])]]])]
    /\ UNCHANGED <<config, fs, pc, componentMetadata, rulesApplied, idx, component, vpos,
                   violations, results, parsed, failed, extracted, report, par, cli>>

\* checkHeadingHierarchy(component), the last part of validate1_3_1, on a
\* template without inputs and lists
CallCheckHeadingHierarchy ==
    /\ pc = "call"
    /\ call.log = <<>>
    /\ \E template \in Seqs(HeadingTokens, MaxTokens) :
          LET r == checkHeadingHierarchy(template, call.static)
          IN  call' = [static |-> r.static,
                       log |-> Append(call.log,
                                  [fn |-> "checkHeadingHierarchy",
                                   arg |-> template,
                                   static |-> call.static,
                                   ret |-> r.violations])]
    /\ UNCHANGED <<config, fs, pc, componentMetadata, rulesApplied, idx, component, vpos,
                   violations, results, parsed, failed, extracted, report, par, cli>>

\* VALIDATORS[2.4.3].validate(component): validate2_4_3(component.template),
\* each violation through convertViolation; template.split('\n') has at least
\* one line
CallValidate2_4_3 ==
    /\ pc = "call"
    /\ call.log = <<>>
    /\ \E n \in 1..MaxLines :
          \E template \in [1..n -> TabLines] :
             LET r == validate2_4_3(template)
             IN  call' = [static |-> IF \E q \in DOMAIN template :
                                          \E j \in DOMAIN template[q] :
                                             template[q][j] = "tabindex=\"2\""
                                    THEN "2"
                                    ELSE IF detectNegativeTabindex(template) # <<>>
                                    THEN "" ELSE call.static,
                          log |-> Append(call.log,
                                     [fn |-> "validate2_4_3",
                                      arg |-> template,
                                      static |-> call.static,
                                      ret |-> [found |-> r,
                                               violations |->
                                                  [k \in DOMAIN r |->
                                                      convertViolation("2.4.3",
                                                          "Focus Order", r[k])]]])]
    /\ UNCHANGED <<config, fs, pc, componentMetadata, rulesApplied, idx, component, vpos,
                   violations, results, parsed, failed, extracted, report, par, cli>>

CallExtractSvgTitles ==
    /\ pc = "call"
    /\ call.log = <<>>
    /\ \E template \in Seqs(SvgTokens, MaxTokens) :
          call' = [static |-> IF extractSvgTitles(template) = <<>> THEN call.static
                              ELSE "t",
                   log |-> Append(call.log,
                              [fn |-> "extractSvgTitles",
                               arg |-> template,
                               static |-> call.static,
                               ret |-> extractSvgTitles(template)])]
    /\ UNCHANGED <<config, fs, pc, componentMetadata, rulesApplied, idx, component, vpos,
                   violations, results, parsed, failed, extracted, report, par, cli>>

NextUnit ==
    \/ CallParseVueFile
    \/ CallValidate1_1_1
    \/ CallValidate3_2_4
    \/ CallCheckHeadingHierarchy
    \/ CallValidate2_4_3
    \/ CallExtractSvgTitles

UnitSpec == UnitInit /\ [][NextUnit]_vars

----------------------------------------------------------------------------
(* Successive invocations of registered validators in one process *)

\* RegExp.$1 is the one value of the process that a validator both reads and
\* leaves behind; call.static carries it from one invocation to the next.
InvokeInit ==
    /\ config = [rules |-> <<>>]
    /\ fs = [rootReadable |-> TRUE, listing |-> <<>>, content |-> <<>>, node |-> <<>>]
    /\ pc = "invoke"
    /\ componentMetadata = <<>>
    /\ rulesApplied = <<>>
    /\ idx = 1
    /\ component = NoComponent
    /\ vpos = 1
    /\ violations = <<>>
    /\ results = <<>>
    /\ parsed = 0
    /\ failed = 0
    /\ extracted = <<>>
    /\ report = NoReport
    /\ par = NoPar
    /\ call = NoCall
    /\ cli = NoCli

InvokeValidate1_1_1 ==
    /\ pc = "invoke"
    /\ Len(call.log) < MaxCalls
    /\ \E template \in [imgs : Seqs({t \in ImgTags : ~t.ariaLabel /\ t.alt \in {"missing", "text"}}, 1),
                         svgs : {<<>>}, buttons : {<<>>}] :
          LET r == validate1_1_1(template, call.static)
          IN  call' = [static |-> r.static,
                       log |-> Append(call.log,
                                  [fn |-> "validate1_1_1",
                                   arg |-> template,
                                   static |-> call.static,
                                   ret |-> r.violations])]
    /\ UNCHANGED <<config, fs, pc, componentMetadata, rulesApplied, idx, component, vpos,
                   violations, results, parsed, failed, extracted, report, par, cli>>

InvokeValidate3_2_4 ==
    /\ pc = "invoke"
    /\ Len(call.log) < MaxCalls
    /\ \E template \in Seqs({l \in Lines3_2_4 :
                                /\ l.link = ""
                                /\ l.button \in {"", "Save", " Save "}
                                /\ l.icon.action \in {"", "save"}
                                /\ l.icon.class # "unknown"
                                /\ l.button # "" \/ l.icon # NoIcon}, 2) :
          LET r == validate3_2_4(template, call.static)
          IN  call' = [static |-> r.static,
                       log |-> Append(call.log,
                                  [fn |-> "validate3_2_4",
                                   arg |-> template,
                                   static |-> call.static,
                                   ret |-> r.violations])]
    /\ UNCHANGED <<config, fs, pc, componentMetadata, rulesApplied, idx, component, vpos,
                   violations, results, parsed, failed, extracted, report, par, cli>>

NextInvoke ==
    \/ InvokeValidate1_1_1
    \/ InvokeValidate3_2_4

InvokeSpec == InvokeInit /\ [][NextInvoke]_vars

----------------------------------------------------------------------------
(* Properties of the returned AuditResult *)

Returned == pc = "done"

\* entries of a component result's ruleStatuses that carry rule id rid
StatusEntries(r, rid) == { j \in DOMAIN r.ruleStatuses : r.ruleStatuses[j].ruleId = rid }

\* violations of a component result that carry rule id rid
ViolationEntries(r, rid) == { j \in DOMAIN r.violations : r.violations[j].ruleId = rid }

\* the text the component result r was computed from
TextOf(r) == fs.content[r.path].text

\* page/section-level component, by the convention validate2_4_1 uses
PageTyped(r) == isPage(r)

\* C1: in the returned AuditResult every component has exactly one rule status
\* for each rule id of rulesApplied, and none for any other rule id.
C1_OneStatusPerAppliedRule ==
    Returned =>
        \A k \in DOMAIN report.components :
            /\ \A rid \in Range(report.scope.rulesApplied) :
                  Cardinality(StatusEntries(report.components[k], rid)) = 1
            /\ \A j \in DOMAIN report.components[k].ruleStatuses :
                  report.components[k].ruleStatuses[j].ruleId
                      \in Range(report.scope.rulesApplied)

\* C1 witness: a report over two components and three applied rules, from a
\* configuration that repeats an id and names an unregistered one.
C1_Witness ==
    /\ Returned
    /\ Len(report.components) = 2
    /\ Len(report.scope.rulesApplied) = 3
    /\ Len(config.rules) > 3

\* C2: on a component that is not page/section-level, a configured rule among
\* 2.4.1 and 3.1.1 has status NOT_APPLICABLE with violationCount 0 and no
\* violation; every other configured rule has status PASSED or FAILED.
C2_PageOnlyRulesNotApplicable ==
    \A k \in DOMAIN results :
        ~PageTyped(results[k]) =>
            \A j \in DOMAIN results[k].ruleStatuses :
                LET rs == results[k].ruleStatuses[j]
                IN  IF rs.ruleId \in PageOnlyRules
                    THEN /\ rs.status = "NOT_APPLICABLE"
                         /\ rs.violationCount = 0
                         /\ ViolationEntries(results[k], rs.ruleId) = {}
                    ELSE rs.status \in {"PASSED", "FAILED"}

\* C3: with 2.4.1 applied, a page-typed component without main landmark and
\* skip link has exactly one error-severity 2.4.1 violation and status FAILED,
\* and a component that is not page-typed with the same markup has status
\* NOT_APPLICABLE for 2.4.1.
C3_BypassBlocksByType ==
    \A k \in DOMAIN results :
        LET r == results[k]
        IN  (/\ Includes(rulesApplied, "2.4.1")
             /\ ~TextOf(r).hasMain
             /\ ~TextOf(r).hasSkipLink
             /\ "2.4.1" \notin TextOf(r).throws)
            => \A j \in StatusEntries(r, "2.4.1") :
                  IF PageTyped(r)
                  THEN /\ r.ruleStatuses[j].status = "FAILED"
                       /\ Cardinality({ i \in ViolationEntries(r, "2.4.1") :
                                          r.violations[i].severity = "error" }) = 1
                  ELSE r.ruleStatuses[j].status = "NOT_APPLICABLE"

\* the page-typed half of C3, which the code satisfies
C3_PageHalf ==
    \A k \in DOMAIN results :
        LET r == results[k]
        IN  (/\ Includes(rulesApplied, "2.4.1")
             /\ PageTyped(r)
             /\ ~TextOf(r).hasMain
             /\ ~TextOf(r).hasSkipLink
             /\ "2.4.1" \notin TextOf(r).throws)
            => \A j \in StatusEntries(r, "2.4.1") :
                  /\ r.ruleStatuses[j].status = "FAILED"
                  /\ Cardinality({ i \in ViolationEntries(r, "2.4.1") :
                                     r.violations[i].severity = "error" }) = 1

\* a rule applies to a component unless it is page-only and the component is not a page
Applicable(r, rid) == rid \notin PageOnlyRules \/ PageTyped(r)

\* C4: every rule status counts the component's violations of its rule; it is
\* FAILED iff that count is positive, and for an applicable rule PASSED iff the
\* count is 0, whatever the severities.
C4_StatusFromViolationCount ==
    \A k \in DOMAIN results :
        \A j \in DOMAIN results[k].ruleStatuses :
            LET rs == results[k].ruleStatuses[j]
            IN  /\ rs.violationCount = Cardinality(ViolationEntries(results[k], rs.ruleId))
                /\ rs.status = "FAILED" <=> rs.violationCount > 0
                /\ Applicable(results[k], rs.ruleId) =>
                      (rs.status = "PASSED" <=> rs.violationCount = 0)

\* C4 witness: a rule whose only violations are warnings is FAILED, next to a
\* rule of the same component that PASSED.
C4_Witness ==
    \E k \in DOMAIN results :
        /\ \E j \in DOMAIN results[k].ruleStatuses :
              /\ results[k].ruleStatuses[j].status = "FAILED"
              /\ results[k].ruleStatuses[j].violationCount = 2
              /\ \A i \in ViolationEntries(results[k], results[k].ruleStatuses[j].ruleId) :
                    results[k].violations[i].severity = "warning"
        /\ \E j \in DOMAIN results[k].ruleStatuses :
              /\ results[k].ruleStatuses[j].status = "PASSED"
              /\ results[k].ruleStatuses[j].violationCount = 0

----------------------------------------------------------------------------
(* Properties of the statistics *)

\* components whose status entry for rule rid is st
WithStatus(components, rid, st) ==
    { k \in DOMAIN components :
        \E e \in StatusEntries(components[k], rid) :
            components[k].ruleStatuses[e].status = st }

\* (component, rule) pairs over the applied rules whose status is st
PairsWithStatus(components, rules, st) ==
    { kj \in (DOMAIN components) \X (DOMAIN rules) :
        kj[1] \in WithStatus(components, rules[kj[2]], st) }

\* C5: overallConformityPercent is total passed over total applicable (passed
\* plus failed), summed over the rules on the raw counts, times 100, and 100 when
\* nothing is applicable; for 1 of 1 and 1 of 10 it is 200/11 and not 55.
C5_OverallIsWeighted ==
    Returned =>
        LET p == Cardinality(PairsWithStatus(results, rulesApplied, "PASSED"))
            f == Cardinality(PairsWithStatus(results, rulesApplied, "FAILED"))
            overall == report.summary.overallConformityPercent
        IN  /\ p + f > 0 => RatEq(overall, [num |-> p * 100, den |-> p + f])
            /\ p + f = 0 => overall = [num |-> 100, den |-> 1]
            /\ results = WeightingScenario =>
                  /\ RatEq(overall, [num |-> 200, den |-> 11])
                  /\ ~RatEq(overall, [num |-> 55, den |-> 1])

\* C5 witness: the report of the 1-of-1 / 1-of-10 scenario, with 200/11
C5_Witness ==
    /\ Returned
    /\ results = WeightingScenario
    /\ report.summary.ruleStatistics[1].passed = 1
    /\ report.summary.ruleStatistics[1].totalApplicable = 1
    /\ report.summary.ruleStatistics[2].passed = 1
    /\ report.summary.ruleStatistics[2].totalApplicable = 10
    /\ RatEq(report.summary.overallConformityPercent, [num |-> 200, den |-> 11])

\* C6: each applied rule's statistics count the PASSED, FAILED and
\* NOT_APPLICABLE statuses over the components, totalApplicable is passed plus
\* failed, and conformityPercent is passed / totalApplicable * 100, or exactly
\* 100 when totalApplicable is 0.
C6_RuleStatistics ==
    Returned =>
        /\ Len(report.summary.ruleStatistics) = Len(rulesApplied)
        /\ \A j \in DOMAIN rulesApplied :
              LET st == report.summary.ruleStatistics[j]
                  p == Cardinality(WithStatus(results, rulesApplied[j], "PASSED"))
                  f == Cardinality(WithStatus(results, rulesApplied[j], "FAILED"))
                  n == Cardinality(WithStatus(results, rulesApplied[j], "NOT_APPLICABLE"))
              IN  /\ st.ruleId = rulesApplied[j]
                  /\ st.passed = p
                  /\ st.failed = f
                  /\ st.notApplicable = n
                  /\ st.totalApplicable = p + f
                  /\ p + f > 0 => RatEq(st.conformityPercent, [num |-> p * 100, den |-> p + f])
                  /\ p + f = 0 => st.conformityPercent = [num |-> 100, den |-> 1]

\* C6 witness: one rule with only NOT_APPLICABLE statuses (100 by convention)
\* next to a rule with one PASSED, one FAILED and one NOT_APPLICABLE status.
C6_Witness ==
    /\ Returned
    /\ report.summary.ruleStatistics[1].totalApplicable = 0
    /\ report.summary.ruleStatistics[1].notApplicable = 3
    /\ report.summary.ruleStatistics[1].conformityPercent = [num |-> 100, den |-> 1]
    /\ report.summary.ruleStatistics[2].passed = 1
    /\ report.summary.ruleStatistics[2].failed = 1
    /\ report.summary.ruleStatistics[2].notApplicable = 1
    /\ RatEq(report.summary.ruleStatistics[2].conformityPercent, [num |-> 50, den |-> 1])

----------------------------------------------------------------------------
(* Properties of failure isolation and of the run *)

Unreadable(p) == ~fs.content[p].readable

\* paths of a list of metadata or of component results
Paths(s) == [k \in DOMAIN s |-> s[k].path]

\* C7: a validator that raises on a component contributes no violation for its
\* rule, the other applied validators' violations on that component are kept,
\* the component is added with one status per applied rule, and every
\* component that was read is in the results once the loop ends.
C7_ValidatorErrorIsolated ==
    /\ \A k \in DOMAIN results :
          LET r == results[k]
              c == parseVueFile(r.path, TextOf(r))
          IN  /\ \A n \in DOMAIN VALIDATORS :
                    Includes(rulesApplied, VALIDATORS[n].ruleId) =>
                        IF Throws(VALIDATORS[n], c)
                        THEN ViolationEntries(r, VALIDATORS[n].ruleId) = {}
                        ELSE ViolationsForRule(r.violations, VALIDATORS[n].ruleId)
                                 = Validate(VALIDATORS[n], c)
              /\ \A rid \in Range(rulesApplied) : Cardinality(StatusEntries(r, rid)) = 1
    /\ pc \in {"aggregate", "done"} =>
          \A m \in DOMAIN componentMetadata :
              ~Unreadable(componentMetadata[m].path) =>
                  \E k \in DOMAIN results : results[k].path = componentMetadata[m].path

\* C7 witness: the first component's 1.3.1 validator raised, its 1.1.1
\* violations are recorded, and a second component was processed after it.
C7_Witness ==
    /\ Returned
    /\ Len(results) = 2
    /\ "1.3.1" \in TextOf(results[1]).throws
    /\ Includes(rulesApplied, "1.3.1")
    /\ ViolationEntries(results[1], "1.3.1") = {}
    /\ ViolationEntries(results[1], "1.1.1") # {}
    /\ Len(results[2].ruleStatuses) = Len(rulesApplied)

\* C8: a component whose extraction fails is not in the results and adds one
\* to the failure tally, the loop goes on, and when it ends results plus
\* failures equals the number of scanned files and the results are exactly
\* the readable components, in scan order.
C8_ExtractionFailureSkipped ==
    /\ pc = "loop" =>
          /\ failed = Cardinality({ k \in 1..(idx - 1) : Unreadable(componentMetadata[k].path) })
          /\ Len(results) + failed = idx - 1
    /\ pc \in {"aggregate", "done"} =>
          /\ Len(results) + failed = Len(componentMetadata)
          /\ failed = Cardinality({ k \in DOMAIN componentMetadata :
                                      Unreadable(componentMetadata[k].path) })
          /\ Paths(results)
                = Paths(SelectSeq(componentMetadata, LAMBDA m : ~Unreadable(m.path)))
    /\ Returned => report.components = results

\* C8 witness: the first scanned file could not be read and the second is the
\* only component of the returned report.
C8_Witness ==
    /\ Returned
    /\ Len(componentMetadata) = 2
    /\ Unreadable(componentMetadata[1].path)
    /\ failed = 1
    /\ Paths(report.components) = <<componentMetadata[2].path>>

\* the AuditResult has every part, one statistics entry per applied rule
Complete(rep) ==
    /\ rep # NoReport
    /\ rep.scope.componentsScanned = Len(rep.components)
    /\ rep.scope.rulesApplied = rulesApplied
    /\ rep.summary.totalComponents = Len(rep.components)
    /\ Len(rep.summary.ruleStatistics) = Len(rulesApplied)
    /\ Range(rulesApplied) \subseteq DOMAIN rep.summary.byRule

\* C9: every run ends with a complete AuditResult, whatever fails on the way;
\* when every scanned component fails to parse the report has no component, 0
\* components and violations, and 100 for overall and per-rule conformity.
C9_AlwaysCompleteResult ==
    /\ <>Returned
    /\ [](Returned =>
            /\ Complete(report)
            /\ failed = Len(componentMetadata) =>
                  /\ report.components = <<>>
                  /\ report.summary.totalComponents = 0
                  /\ report.summary.totalViolations = 0
                  /\ report.summary.overallConformityPercent = [num |-> 100, den |-> 1]
                  /\ \A j \in DOMAIN report.summary.ruleStatistics :
                        report.summary.ruleStatistics[j].conformityPercent
                            = [num |-> 100, den |-> 1])

\* C9 witness: two files were scanned, neither could be read, rules are applied
C9_Witness ==
    /\ Returned
    /\ Len(componentMetadata) = 2
    /\ failed = 2
    /\ Len(report.summary.ruleStatistics) >= 2

PhaseRank(p) ==
    CASE p = "init" -> 0
      [] p = "scan" -> 1
      [] p \in {"loop", "validate"} -> 2
      [] p = "aggregate" -> 3
      [] p = "done" -> 4

\* C10: the phases follow one another in the order INIT, SCAN, per-component
\* EXTRACT+VALIDATE, AGGREGATE, DONE and never go back; the scan result is fixed
\* before the first extraction; the scanned components are extracted one by
\* one in ascending path order, each once, and each result is that of the
\* component just extracted; aggregation starts only when every scanned
\* component is a result or a counted failure.
C10_PhaseOrder ==
    [][ /\ PhaseRank(pc') >= PhaseRank(pc)
        /\ PhaseRank(pc') <= PhaseRank(pc) + 1
        /\ componentMetadata' # componentMetadata => pc = "scan"
        /\ extracted' # extracted =>
              /\ pc = "loop"
              /\ Len(extracted) < Len(componentMetadata)
              /\ extracted' = Append(extracted, componentMetadata[Len(extracted) + 1].path)
              /\ \A a \in DOMAIN extracted : extracted[a] < extracted'[Len(extracted')]
        /\ results' # results =>
              /\ pc = "validate"
              /\ \E r \in {results'[Len(results')]} :
                    /\ results' = Append(results, r)
                    /\ r.path = extracted[Len(extracted)]
                    /\ \A k \in DOMAIN results : results[k].path # r.path
        /\ (pc # "aggregate" /\ pc' = "aggregate") =>
              /\ extracted = Paths(componentMetadata)
              /\ Len(results) + failed = Len(componentMetadata)
        /\ report' # report => (pc = "aggregate" /\ pc' = "done")
      ]_vars

\* C10 witness: a finished run over two files listed in descending order, one
\* extracted and validated, the other a counted failure.
C10_Witness ==
    /\ Returned
    /\ fs.listing = <<2, 1>>
    /\ extracted = <<1, 2>>
    /\ Len(results) = 1
    /\ failed = 1

----------------------------------------------------------------------------
(* Properties of the accumulation *)

\* C11: a step changes the accumulated results only by appending one component
\* result, leaving the earlier ones as they were and where they were, and
\* every accumulated result is the one its own file determines, whatever the
\* other files of the scan are and whether they parse.
C11_AppendOnlyIndependent ==
    [][ /\ results' # results =>
              /\ Len(results') = Len(results) + 1
              /\ \A k \in DOMAIN results : results'[k] = results[k]
        /\ \A k \in DOMAIN results' :
              results'[k] = auditComponent(results'[k].path, fs', rulesApplied')
      ]_vars

\* C11 witness: of two accumulated results the first has violations and the
\* second has none.
C11_Witness ==
    /\ Returned
    /\ Len(results) = 2
    /\ results[1].violations # <<>>
    /\ results[2].violations = <<>>

\* C12: when the scanned components are processed in any completion order,
\* interleaved or not, and the results are sorted by path before aggregation,
\* the report (components with their violations and rule statuses, summary
\* counts, per-rule statistics, overall conformity) and the failure tally are
\* those of the sequential run.
C12_AnyOrderSameReport ==
    par.phase = "done" =>
        /\ par.report = report
        /\ par.results = results
        /\ par.failed = failed

\* C12 witness: both components were in flight together, the one with the
\* greater path completed first, and the report has their violations.
C12_Witness ==
    /\ par.phase = "done"
    /\ par.completed = <<2, 1>>
    /\ Len(par.report.components) = 2
    /\ par.report.summary.totalViolations > 0

----------------------------------------------------------------------------
(* Properties of the scan *)

\* the .vue files under a directory listing that can be reached through
\* directories that can be read
RECURSIVE ReadableVueFiles(_, _)
ReadableVueFiles(tree, listing) ==
    UNION { IF tree.node[p].kind = "file"
            THEN (IF tree.node[p].statOk /\ tree.node[p].vue THEN {p} ELSE {})
            ELSE (IF tree.node[p].statOk /\ tree.node[p].readable
                  THEN ReadableVueFiles(tree, tree.node[p].listing)
                  ELSE {})
            : p \in Range(listing) }

Scanned == pc = "loop"

StrictlyAscending(s) == \A a, b \in DOMAIN s : a < b => s[a] < s[b]

\* entries statSync raises on, anywhere in the tree
BrokenEntries(tree) == { p \in DOMAIN tree.node : ~tree.node[p].statOk }

\* C13: scanComponents returns, in ascending path order and each once, exactly
\* the .vue files whose containing directories can all be read, whatever
\* other directories or entries cannot be read; nothing when the root
\* directory cannot be read.
C13_ScanReturnsReachableFiles ==
    Scanned =>
        /\ StrictlyAscending(Paths(componentMetadata))
        /\ Range(Paths(componentMetadata))
              = IF fs.rootReadable THEN ReadableVueFiles(fs, fs.listing) ELSE {}

\* the part of C13 the code satisfies: trees in which statSync never raises
C13_UnreadableDirectoriesSkipped ==
    (Scanned /\ BrokenEntries(fs) = {}) =>
        /\ StrictlyAscending(Paths(componentMetadata))
        /\ Range(Paths(componentMetadata))
              = IF fs.rootReadable THEN ReadableVueFiles(fs, fs.listing) ELSE {}

\* the scenario of C13: one directory that cannot be read and two .vue files
\* that can, listed in descending order, both returned
C13_ScenarioReached ==
    /\ Scanned
    /\ fs.rootReadable
    /\ \E d \in DOMAIN fs.node : fs.node[d].kind = "dir" /\ ~fs.node[d].readable
    /\ BrokenEntries(fs) = {}
    /\ Len(componentMetadata) = 2
    /\ fs.listing[1] > fs.listing[Len(fs.listing)]

----------------------------------------------------------------------------
(* Properties of the validators on absent markup *)

\* C17: a component that is not page-typed and whose template and script are
\* empty gets no violation, and status PASSED or NOT_APPLICABLE for every
\* configured rule: absent markup is never itself a violation.
C17_EmptyComponentHasNoViolation ==
    \A k \in DOMAIN results :
        (TextOf(results[k]) = EmptyText /\ ~PageTyped(results[k])) =>
            /\ results[k].violations = <<>>
            /\ \A j \in DOMAIN results[k].ruleStatuses :
                  results[k].ruleStatuses[j].status \in {"PASSED", "NOT_APPLICABLE"}

\* the part of C17 the code satisfies: every rule but 3.1.1
C17_ExceptLanguageOfPage ==
    \A k \in DOMAIN results :
        (TextOf(results[k]) = EmptyText /\ ~PageTyped(results[k])) =>
            /\ \A i \in DOMAIN results[k].violations :
                  results[k].violations[i].ruleId = "3.1.1"
            /\ \A j \in DOMAIN results[k].ruleStatuses :
                  results[k].ruleStatuses[j].ruleId # "3.1.1" =>
                      results[k].ruleStatuses[j].status = "PASSED"

----------------------------------------------------------------------------
(* Properties of the parser *)

\* invocations of fn in the log
Calls(fn) == { k \in DOMAIN call.log : call.log[k].fn = fn }

\* the text between the first marker open and the first marker close after
\* it, empty when either is missing
BetweenFirstMarkers(content, open, close) ==
    LET opens == { i \in DOMAIN content : content[i] = open }
    IN  IF opens = {} THEN <<>>
        ELSE LET closes == { j \in DOMAIN content : j > Min(opens) /\ content[j] = close }
             IN  IF closes = {} THEN <<>>
                 ELSE SubSeq(content, Min(opens) + 1, Min(closes) - 1)

\* C14: parseVueFile's template is the text between the first opening template
\* marker and the first closing template marker after it, its script likewise,
\* and a section that is missing gives the empty string.
C14_SectionsBetweenFirstMarkers ==
    \A k \in Calls("parseVueFile") :
        LET content == call.log[k].arg.content
            ret == call.log[k].ret
        IN  /\ ret.template = BetweenFirstMarkers(content, "<template>", "</template>")
            /\ ret.script = BetweenFirstMarkers(content, "<script>", "</script>")
            /\ "<template>" \notin Range(content) => ret.template = <<>>
            /\ "<script>" \notin Range(content) => ret.script = <<>>

\* C14 witness: a file with a template section and no script section
C14_Witness ==
    \E k \in Calls("parseVueFile") :
        /\ call.log[k].arg.content = <<"<template>", "text", "</template>">>
        /\ call.log[k].ret.template = <<"text">>
        /\ call.log[k].ret.script = <<>>

\* the name: '...' declarations after the first export default {
DeclaredNames(content) ==
    LET exports == { i \in DOMAIN content : content[i] = "export default {" }
    IN  IF exports = {} THEN {}
        ELSE { j \in DOMAIN content :
                 j > Min(exports) /\ content[j] \in {"name: 'Card'", "name: 'my-card'"} }

\* C15: the component name of a file whose name before .vue is not empty is
\* the name the export block declares when it declares one, otherwise the
\* whole file name without .vue, and it is never empty.
C15_NameDeclaredOrStem ==
    \A k \in Calls("parseVueFile") :
        LET content == call.log[k].arg.content
            ret == call.log[k].ret
        IN  call.log[k].arg.stem # <<>> =>
                /\ ret.name # <<>>
                /\ ret.name = IF DeclaredNames(content) # {}
                              THEN NameValue(content[Min(DeclaredNames(content))])
                              ELSE call.log[k].arg.stem

\* the part of C15 the code satisfies: declared names of word characters, and
\* file names of letters and digits
C15_WordNamesAndPlainStems ==
    \A k \in Calls("parseVueFile") :
        LET content == call.log[k].arg.content
            ret == call.log[k].ret
        IN  /\ ret.name # <<>>
            /\ (/\ DeclaredNames(content) # {}
                 /\ content[Min(DeclaredNames(content))] \in WordNameTokens)
                => ret.name = NameValue(content[Min(DeclaredNames(content))])
            /\ (/\ DeclaredNames(content) = {}
                 /\ call.log[k].arg.stem # <<>>
                 /\ Range(call.log[k].arg.stem) \subseteq AlnumChars)
                => ret.name = call.log[k].arg.stem

----------------------------------------------------------------------------
(* Properties of rule 1.1.1 *)

\* the template holds one <img> and nothing else rule 1.1.1 inspects
OnlyOneImage(template) ==
    Len(template.imgs) = 1 /\ template.svgs = <<>> /\ template.buttons = <<>>

\* C18: with rule 1.1.1 applied, a template whose only inspected markup is one
\* image without alt, without aria-label and not decorative gets exactly one
\* rule status, for 1.1.1, FAILED with violationCount 1, and exactly one
\* violation, of severity error, whose issue names the missing alt attribute.
C18_MissingAltFailsOnce ==
    \A k \in Calls("validate1_1_1") :
        LET template == call.log[k].arg
            ret == call.log[k].ret
        IN  (/\ OnlyOneImage(template)
             /\ template.imgs[1].alt = "missing"
             /\ ~template.imgs[1].ariaLabel
             /\ ~template.imgs[1].decorative)
            => /\ ret.ruleStatuses
                    = << [ruleId |-> "1.1.1", status |-> "FAILED", violationCount |-> 1] >>
               /\ Len(ret.violations) = 1
               /\ ret.violations[1].ruleId = "1.1.1"
               /\ ret.violations[1].severity = "error"
               /\ ret.violations[1].issue = "Image missing alt attribute"

\* C18 witness: such a template was validated, RegExp.$1 holding a stale value
C18_Witness ==
    \E k \in Calls("validate1_1_1") :
        /\ OnlyOneImage(call.log[k].arg)
        /\ call.log[k].arg.imgs[1] = [alt |-> "missing", ariaLabel |-> FALSE,
                                       decorative |-> FALSE]
        /\ call.log[k].static = "stale"
        /\ Len(call.log[k].ret.violations) = 1

\* C19: a decorative image gets no 1.1.1 violation when its alt is present and
\* empty, and is reported when its alt is not empty or is missing.
C19_DecorativeNeedsEmptyAlt ==
    \A k \in Calls("validate1_1_1") :
        LET template == call.log[k].arg
            ret == call.log[k].ret
        IN  (OnlyOneImage(template) /\ template.imgs[1].decorative) =>
                /\ template.imgs[1].alt = "empty" => ret.violations = <<>>
                /\ template.imgs[1].alt \in {"text", "missing"} => ret.violations # <<>>

\* the part of C19 the code satisfies: alt="" passes, a non-empty alt is reported
C19_DecorativeWithAlt ==
    \A k \in Calls("validate1_1_1") :
        LET template == call.log[k].arg
            ret == call.log[k].ret
        IN  (OnlyOneImage(template) /\ template.imgs[1].decorative) =>
                /\ template.imgs[1].alt = "empty" => ret.violations = <<>>
                /\ template.imgs[1].alt = "text" =>
                      /\ Len(ret.violations) = 1
                      /\ ret.violations[1].severity = "warning"

----------------------------------------------------------------------------
(* Properties of rule 3.2.4 *)

\* the template is two lines, each with one button and nothing else, whose
\* labels differ and stand for the same canonical action
TwoButtonsOneAction(template) ==
    /\ Len(template) = 2
    /\ \A k \in 1..2 :
          /\ template[k].button # ""
          /\ template[k].link = ""
          /\ template[k].icon = NoIcon
    /\ template[1].button # template[2].button
    /\ Trim(ToLowerCase(template[1].button)) = Trim(ToLowerCase(template[2].button))
    /\ Trim(ToLowerCase(template[1].button)) \in ButtonActions

\* exactly one violation, a warning at line 2 that names both labels and
\* both lines
OneWarningAtSecond(template, ret) ==
    /\ Len(ret.found) = 1
    /\ ret.found[1].severity = "warning"
    /\ ret.found[1].line = 2
    /\ ret.found[1].issue.previousLabel = template[1].button
    /\ ret.found[1].issue.previousLine = 1
    /\ ret.found[1].issue.nowLabel = template[2].button
    /\ ret.found[1].issue.nowLine = 2
    /\ Len(ret.violations) = 1
    /\ ret.violations[1].ruleId = "3.2.4"
    /\ ret.violations[1].severity = "warning"

\* the lines of the template on which a button or a link stands for the action
UsesOf(template, action) ==
    { k \in DOMAIN template :
        \/ template[k].button # "" /\ action \in ButtonActions
              /\ Trim(ToLowerCase(template[k].button)) = action
        \/ template[k].link # "" /\ action \in LinkActions
              /\ Trim(ToLowerCase(template[k].link)) = action }

\* the label of the first use of the action on a line, the button before the link
FirstLabelOn(line, action) ==
    IF line.button # "" /\ action \in ButtonActions
       /\ Trim(ToLowerCase(line.button)) = action
    THEN line.button ELSE line.link

\* every label violation is about a use other than the first use of its
\* action, and names that first use as the previous one
FirstUseNotFlagged(template, ret) ==
    \A v \in Range(ret.found) :
        v.type = "inconsistent-labels" =>
            LET first == CHOOSE k \in UsesOf(template, v.issue.action) :
                             \A j \in UsesOf(template, v.issue.action) : k <= j
            IN  /\ v.issue.previousLine = first
                /\ v.issue.previousLabel = FirstLabelOn(template[first], v.issue.action)
                /\ v.issue.nowLine >= first
                /\ v.issue.nowLabel # v.issue.previousLabel

\* C20: with rule 3.2.4 applied, two buttons of one template that stand for
\* the same canonical action under differing labels give exactly one
\* violation, of severity warning, at the later button, naming both labels
\* and both lines; the first use of an action is never reported.
C20_DifferingLabelsWarnOnce ==
    \A k \in Calls("validate3_2_4") :
        /\ TwoButtonsOneAction(call.log[k].arg) =>
              OneWarningAtSecond(call.log[k].arg, call.log[k].ret)
        /\ FirstUseNotFlagged(call.log[k].arg, call.log[k].ret)

\* the part of C20 the code satisfies: labels that still differ once both are
\* lowercased, that is in their surrounding blanks
C20_DifferingBlanksWarnOnce ==
    \A k \in Calls("validate3_2_4") :
        /\ (/\ TwoButtonsOneAction(call.log[k].arg)
             /\ ToLowerCase(call.log[k].arg[1].button)
                    # ToLowerCase(call.log[k].arg[2].button))
            => OneWarningAtSecond(call.log[k].arg, call.log[k].ret)
        /\ FirstUseNotFlagged(call.log[k].arg, call.log[k].ret)

\* a template of C20_DifferingBlanksWarnOnce was validated
C20_BlanksReached ==
    \E k \in Calls("validate3_2_4") :
        /\ Len(call.log[k].arg) = 2
        /\ call.log[k].arg[1].button = "Save"
        /\ call.log[k].arg[2].button = " Save "
        /\ Len(call.log[k].ret.found) = 1

----------------------------------------------------------------------------
(* Properties of successive invocations *)

----------------------------------------------------------------------------
(* Properties of the violations of a result *)

\* C21: every violation a validator call adds to the current component's
\* list carries the ruleId of the registry entry that was called, that entry
\* is one of rulesApplied, and so every violation of every pushed result has
\* a ruleId of rulesApplied.
C21_ViolationsCarryAppliedRule ==
    [][/\ (pc = "validate" /\ violations' # violations /\ pc' = "validate") =>
              /\ Includes(rulesApplied, VALIDATORS[vpos].ruleId)
              /\ \A j \in (Len(violations) + 1)..Len(violations') :
                    violations'[j].ruleId = VALIDATORS[vpos].ruleId
       /\ \A k \in DOMAIN results' :
              \A v \in Range(results'[k].violations) :
                  Includes(rulesApplied', v.ruleId)]_vars

\* a result was pushed with violations of two rules, under a configuration
\* that leaves registry rules out
C21_Witness ==
    /\ pc = "done"
    /\ Len(rulesApplied) < Len(VALIDATORS)
    /\ \E k \in DOMAIN results :
          /\ Cardinality({ v.ruleId : v \in Range(results[k].violations) }) >= 2
          /\ \E v \in Range(results[k].violations) : v.ruleId = "2.4.1"

----------------------------------------------------------------------------
(* Properties of the registry and of the selection of rules *)

\* position of a rule id in the registry
RegistryPos(ruleId) == CHOOSE k \in DOMAIN VALIDATORS : VALIDATORS[k].ruleId = ruleId

\* the registry holds the 16 catalog ids, each once
RegistryIsCatalog ==
    /\ Len(VALIDATORS) = 16
    /\ \A j, k \in DOMAIN VALIDATORS : j # k => VALIDATORS[j].ruleId # VALIDATORS[k].ruleId
    /\ RegistryIds = Range(WCAG_RULES)
    /\ \A j, k \in DOMAIN WCAG_RULES : j # k => WCAG_RULES[j] # WCAG_RULES[k]

\* rulesApplied is the registry restricted to the set of configured ids
AppliedIsRegistrySubsequence ==
    pc \notin {"init", "scan"} =>
        /\ Range(rulesApplied) = Range(config.rules) \cap RegistryIds
        /\ \A j, k \in DOMAIN rulesApplied :
              j < k => RegistryPos(rulesApplied[j]) < RegistryPos(rulesApplied[k])

\* the entries of rulesApplied strictly between registry positions a and b
AppliedBetween(a, b) ==
    { k \in DOMAIN VALIDATORS : a < k /\ k < b /\ Includes(rulesApplied, VALIDATORS[k].ruleId) }

\* the validator loop of one component calls the applied entries one after
\* the other, each once, and ends when none is left
EachAppliedValidatorOnce ==
    /\ (pc = "loop" /\ pc' = "validate") => AppliedBetween(0, vpos') = {}
    /\ (pc = "validate" /\ pc' = "validate" /\ vpos' # vpos) =>
          /\ Includes(rulesApplied, VALIDATORS[vpos].ruleId)
          /\ vpos' > vpos
          /\ AppliedBetween(vpos, vpos') = {}
    /\ (pc = "validate" /\ pc' = "loop") => AppliedBetween(vpos - 1, Len(VALIDATORS) + 1) = {}
    /\ (pc' = "validate" /\ vpos' <= Len(VALIDATORS)) =>
          Includes(rulesApplied', VALIDATORS[vpos'].ruleId)

----------------------------------------------------------------------------
(* Properties of the componentTypes list *)

\* The type of a component by the one convention the code has for it: a page
\* is a component whose name starts with Page or whose path is under pages.
ComponentTypeOf(c) == IF isPage(c) THEN "Page" ELSE "Item"

\* C23: only components whose type is in config.componentTypes are audited:
\* none of another type is among the components of the result or counted in
\* componentsScanned.
C23_OnlyListedTypesAudited ==
    pc = "done" =>
        /\ \A k \in DOMAIN report.components :
              Includes(config.componentTypes, ComponentTypeOf(report.components[k]))
        /\ report.scope.componentsScanned =
              Cardinality({ p \in Range(extracted) :
                              /\ fs.content[p].readable
                              /\ Includes(config.componentTypes,
                                          ComponentTypeOf(parseVueFile(p, fs.content[p].text))) })

----------------------------------------------------------------------------
(* index.ts: runCLI around runAudit, and the badge generator it calls *)

\* Results runAudit may hand to the reporter: per rule of ReportRules a
\* status buildRuleStatuses produces.
CliStatusChoices == [DOMAIN ReportRules -> {"PASSED", "FAILED"}]

\* config.minConformity
MinConformities == {0, 50, 75, 100}

\* The run is inside `await runAudit(config)`; the files it will write can be
\* written or not.
CliInit ==
    /\ config = [rules |-> ReportRules]
    /\ fs = [rootReadable |-> TRUE, listing |-> <<>>, content |-> <<>>, node |-> <<>>]
    /\ pc = "aggregate"
    /\ componentMetadata = <<>>
    /\ rulesApplied = ReportRules
    /\ idx = 1
    /\ component = NoComponent
    /\ vpos = 1
    /\ violations = <<>>
    /\ \E n \in 0..MaxCliComponents :
          \E chs \in [1..n -> CliStatusChoices] :
             results = [p \in 1..n |-> ComponentResultOf(p, chs[p])]
    /\ parsed = Len(results)
    /\ failed = 0
    /\ extracted = <<>>
    /\ report = NoReport
    /\ par = NoPar
    /\ call = NoCall
    /\ cli \in [phase : {"audit"}, minConformity : MinConformities,
                 generateBadge : BOOLEAN, reportWritable : BOOLEAN,
                 badgeWritable : BOOLEAN, written : {FALSE}, badge : {"none"},
                 exit : {"none"}, reason : {""}]

\* variant: a conformity equal to the threshold is below it
belowThresholdInclusive(percent, minConformity) ==
    percent.num <= minConformity * percent.den

\* report.summary.overallConformityPercent < config.minConformity
belowThreshold(percent, minConformity) ==
    percent.num < minConformity * percent.den

\* reporter.writeToFile(report, outputFile); a failure reaches the catch of
\* runCLI, which exits with status 1
CliWriteReport ==
    /\ pc = "done"
    /\ cli.phase = "audit"
    /\ cli' = IF cli.reportWritable
              THEN [cli EXCEPT !.written = TRUE,
                               !.phase = IF cli.generateBadge THEN "badge" ELSE "check"]
              ELSE [cli EXCEPT !.phase = "exited", !.exit = "1", !.reason = "error"]
    /\ UNCHANGED <<config, fs, pc, componentMetadata, rulesApplied, idx, component, vpos,
                   violations, results, parsed, failed, extracted, report, par, call>>

\* `!summary.overallConformityPercent`: the number read back from the file is 0
Falsy(percent) == percent.num = 0

\* generateWCAGBadges(outputFile, outputDir): what raises inside its try is
\* caught by its own catch, which calls process.exit(1)
CliGenerateBadge ==
    /\ cli.phase = "badge"
    /\ cli' = IF Falsy(report.summary.overallConformityPercent) \/ ~cli.badgeWritable
              THEN [cli EXCEPT !.phase = "exited", !.badge = "failed", !.exit = "1",
                               !.reason = "badge"]
              ELSE [cli EXCEPT !.phase = "check", !.badge = "generated"]
    /\ UNCHANGED <<config, fs, pc, componentMetadata, rulesApplied, idx, component, vpos,
                   violations, results, parsed, failed, extracted, report, par, call>>

\* the minimum-conformity check, then the end of runCLI
CliCheckThreshold ==
    /\ cli.phase = "check"
    /\ cli' = IF belowThreshold(report.summary.overallConformityPercent, cli.minConformity)
              THEN [cli EXCEPT !.phase = "exited", !.exit = "1", !.reason = "threshold"]
              ELSE [cli EXCEPT !.phase = "exited", !.exit = "0", !.reason = "end"]
    /\ UNCHANGED <<config, fs, pc, componentMetadata, rulesApplied, idx, component, vpos,
                   violations, results, parsed, failed, extracted, report, par, call>>

NextCli ==
    \/ Aggregate
    \/ CliWriteReport
    \/ CliGenerateBadge
    \/ CliCheckThreshold

CliSpec == CliInit /\ [][NextCli]_vars

----------------------------------------------------------------------------
(* Properties of the command-line run *)

\* C24: runAudit returns its AuditResult and leaves the process running for
\* every conformity value, below minConformity or not; the run is ended for
\* the threshold exactly when overallConformityPercent < minConformity
\* strictly, so a conformity equal to minConformity passes the check.
C24_ThresholdIsStrict ==
    /\ (pc = "done" /\ cli.phase = "audit") =>
          (cli.exit = "none" /\ report # NoReport)
    /\ cli.reason = "threshold" =>
          /\ cli.exit = "1"
          /\ report.summary.overallConformityPercent.num
                < cli.minConformity * report.summary.overallConformityPercent.den
    /\ cli.reason = "end" =>
          /\ cli.exit = "0"
          /\ report.summary.overallConformityPercent.num
                >= cli.minConformity * report.summary.overallConformityPercent.den

\* a run whose conformity is 50 under minConformity 50 reached the end of runCLI
C24_Witness ==
    /\ cli.reason = "end"
    /\ cli.minConformity = 50
    /\ report.summary.overallConformityPercent.num
          = 50 * report.summary.overallConformityPercent.den

\* the exit status is that of the minimum-conformity check
ExitIsThresholdAlone ==
    /\ cli.exit = "1" <=>
          report.summary.overallConformityPercent.num
            < cli.minConformity * report.summary.overallConformityPercent.den
    /\ cli.reason \in {"threshold", "end"}

\* C28: the report is written before the run ends, and a failure of badge
\* generation does not end the run: the minimum-conformity check is made
\* and it alone decides the exit status.
C28_BadgeFailureOnlyWarns ==
    (cli.phase = "exited" /\ cli.reportWritable) =>
        (cli.written /\ ExitIsThresholdAlone)

\* the part of C28 the code satisfies: runs without badge generation or
\* whose badges were generated
C28_WhenBadgeSucceeds ==
    (cli.phase = "exited" /\ cli.reportWritable /\ cli.badge # "failed") =>
        (cli.written /\ ExitIsThresholdAlone)

\* a run with conformity 0 whose badges were asked for has ended
C28_ZeroConformityReached ==
    /\ cli.phase = "exited"
    /\ cli.generateBadge
    /\ cli.written
    /\ report.summary.overallConformityPercent.num = 0

----------------------------------------------------------------------------
(* Properties of rule 1.3.1 *)

\* positions of the headings of a template
HeadingPositions(template) == { q \in DOMAIN template : IsHeading(template[q]) }

\* the heading before the one at q, 0 for the first heading
PrecedingHeading(template, q) ==
    IF \E j \in HeadingPositions(template) : j < q
    THEN CHOOSE j \in HeadingPositions(template) :
            /\ j < q
            /\ \A i \in HeadingPositions(template) : i < q => i <= j
    ELSE 0

\* headings whose level is more than one above that of the heading before
JumpPositions(template) ==
    { q \in HeadingPositions(template) :
        /\ PrecedingHeading(template, q) # 0
        /\ HeadingLevel(template[q])
             - HeadingLevel(template[PrecedingHeading(template, q)]) > 1 }

\* C25: for the headings of a template in source order, exactly one
\* heading-hierarchy warning is emitted for each heading whose level exceeds
\* the level of the heading before it by more than one, at that heading's
\* line; the first heading, equal levels, increases by one and decreases give
\* none.
C25_OneWarningPerJump ==
    \A k \in Calls("checkHeadingHierarchy") :
        LET template == call.log[k].arg
            ret == call.log[k].ret
        IN  /\ Len(ret) = Cardinality(JumpPositions(template))
            /\ \A q \in JumpPositions(template) :
                  LET n == Cardinality({ j \in JumpPositions(template) : j <= q })
                  IN  /\ ret[n].severity = "warning"
                      /\ ret[n].ruleId = "1.3.1"
                      /\ ret[n].line
                            = 1 + Cardinality({ j \in 1..(q - 1) : template[j] = "\n" })
                      /\ ret[n].issue.to = HeadingLevel(template[q])

\* a template with a jump on its second line after a single step was checked
C25_Witness ==
    \E k \in Calls("checkHeadingHierarchy") :
        /\ call.log[k].arg = <<"<h1>", "\n", "<h3>">>
        /\ Len(call.log[k].ret) = 1
        /\ call.log[k].ret[1].line = 2

----------------------------------------------------------------------------
(* Properties of rule 2.4.3 *)

\* the lines of a template that hold a negative tabindex
NegativeLines(template) ==
    { q \in DOMAIN template :
        \E j \in DOMAIN template[q] : template[q][j] = "tabindex=\"-1\"" }

\* the negative-tabindex violations of a returned list
NegativeFound(ret) == SelectSeq(ret.found, LAMBDA v : v.type = "negative-tabindex")

\* C29: validate2_4_3 emits exactly one negative-tabindex warning for each
\* template line that holds a negative tabindex, at that line's number from
\* 1, also when several lines in a row each hold one.
C29_OneWarningPerNegativeLine ==
    \A k \in Calls("validate2_4_3") :
        LET template == call.log[k].arg
            neg == NegativeFound(call.log[k].ret)
        IN  /\ { neg[n].line : n \in DOMAIN neg } = NegativeLines(template)
            /\ Len(neg) = Cardinality(NegativeLines(template))
            /\ \A n \in DOMAIN neg : neg[n].severity = "warning"

\* the part of C29 the code satisfies: warnings are at lines that hold a
\* negative tabindex, at most one for a line, and a line that does not
\* follow a reported line is reported
C29_NoWarningWithoutNegative ==
    \A k \in Calls("validate2_4_3") :
        LET template == call.log[k].arg
            neg == NegativeFound(call.log[k].ret)
            lines == { neg[n].line : n \in DOMAIN neg }
        IN  /\ lines \subseteq NegativeLines(template)
            /\ Len(neg) = Cardinality(lines)
            /\ \A n \in DOMAIN neg : neg[n].severity = "warning"
            /\ \A q \in NegativeLines(template) :
                  (q = 1 \/ (q - 1) \notin lines) => q \in lines

\* a template whose two lines both hold a negative tabindex was validated
C29_ConsecutiveReached ==
    \E k \in Calls("validate2_4_3") :
        /\ Len(call.log[k].arg) = 2
        /\ NegativeLines(call.log[k].arg) = {1, 2}
        /\ Len(NegativeFound(call.log[k].ret)) = 1

----------------------------------------------------------------------------
(* Properties of extractSvgTitles *)

\* the svg elements of a template that contain a title
TitledPositions(template) == { q \in DOMAIN template : template[q] \in SvgTitled }

\* the line of a template on which its piece q begins, from 1
LineOfPiece(template, q) ==
    1 + Cardinality({ j \in 1..(q - 1) : template[j] = "\n" })
      + Cardinality({ j \in 1..(q - 1) : template[j] = "<svg>\n<title>t</title></svg>" })

\* C30: extractSvgTitles returns one entry for each svg element that
\* contains a title, and the line of every entry, the first and the later
\* ones, is the line of the template on which its match begins.
C30_EveryEntryAtItsLine ==
    \A k \in Calls("extractSvgTitles") :
        LET template == call.log[k].arg
            ret == call.log[k].ret
        IN  /\ { ret[n].to : n \in DOMAIN ret } = TitledPositions(template)
            /\ Len(ret) = Cardinality(TitledPositions(template))
            /\ \A n \in DOMAIN ret : ret[n].line = LineOfPiece(template, ret[n].from)

\* the part of C30 the code satisfies: one entry for each titled svg, and the
\* right line for the first entry and for entries behind matches that all
\* begin on line 1
C30_FirstEntryAtItsLine ==
    \A k \in Calls("extractSvgTitles") :
        LET template == call.log[k].arg
            ret == call.log[k].ret
        IN  /\ { ret[n].to : n \in DOMAIN ret } = TitledPositions(template)
            /\ Len(ret) = Cardinality(TitledPositions(template))
            /\ \A n \in DOMAIN ret :
                  (\A j \in 1..(n - 1) : LineOfPiece(template, ret[j].from) = 1)
                      => ret[n].line = LineOfPiece(template, ret[n].from)

\* a template with two titled svg elements behind a line break was read
C30_TwoMatchesReached ==
    \E k \in Calls("extractSvgTitles") :
        /\ Len(call.log[k].ret) = 2
        /\ call.log[k].arg[1] = "\n"

----------------------------------------------------------------------------
(* Properties of the summary of a run *)

\* the violationCount of every rule status of every component
AllViolationCounts(components) ==
    Flatten([k \in DOMAIN components |->
                [j \in DOMAIN components[k].ruleStatuses |->
                    components[k].ruleStatuses[j].violationCount]])

\* the counts of byRule, rule by rule in registry order
ByRuleCounts(byRule) ==
    [k \in DOMAIN VALIDATORS |->
        IF VALIDATORS[k].ruleId \in DOMAIN byRule THEN byRule[VALIDATORS[k].ruleId] ELSE 0]

\* C26: in the AuditResult of a run, totalViolations is the sum of the
\* violationCount of all rule statuses and the sum of the byRule counts,
\* byRule has an entry for every applied rule, componentsWithViolations is
\* the number of components with at least one FAILED status, and for every
\* applied rule passed + failed + notApplicable is totalComponents.
C26_SummaryAgreesWithComponents ==
    Returned =>
        /\ report.components = results
        /\ report.summary.totalViolations = SumSeq(AllViolationCounts(report.components))
        /\ DOMAIN report.summary.byRule \subseteq RegistryIds
        /\ report.summary.totalViolations = SumSeq(ByRuleCounts(report.summary.byRule))
        /\ Range(rulesApplied) \subseteq DOMAIN report.summary.byRule
        /\ report.summary.componentsWithViolations
              = Cardinality({ k \in DOMAIN report.components :
                                \E j \in DOMAIN report.components[k].ruleStatuses :
                                   report.components[k].ruleStatuses[j].status = "FAILED" })
        /\ report.summary.totalComponents = Len(report.components)
        /\ \A j \in DOMAIN report.summary.ruleStatistics :
              report.summary.ruleStatistics[j].passed
                + report.summary.ruleStatistics[j].failed
                + report.summary.ruleStatistics[j].notApplicable
              = report.summary.totalComponents

\* a run over two components returned, one with violations of two rules, one
\* with none, and an applied rule that nothing violated
C26_Witness ==
    /\ Returned
    /\ Len(report.components) = 2
    /\ \E k \in DOMAIN report.components :
          Cardinality({ v.ruleId : v \in Range(report.components[k].violations) }) >= 2
    /\ \E k \in DOMAIN report.components : report.components[k].violations = <<>>
    /\ \E r \in Range(rulesApplied) : report.summary.byRule[r] = 0

\* C27: the RuleStatistics entry of every applied rule carries the display
\* name the registry gives the rule, with or without violations of the rule.
C27_StatisticsCarryRegisteredName ==
    Returned =>
        \A j \in DOMAIN report.summary.ruleStatistics :
            report.summary.ruleStatistics[j].ruleName
                = RuleNameInRegistry(report.summary.ruleStatistics[j].ruleId)

\* the part of C27 the code satisfies: rules that some component violates
C27_NameOfViolatedRules ==
    Returned =>
        \A j \in DOMAIN report.summary.ruleStatistics :
            report.summary.byRule[report.summary.ruleStatistics[j].ruleId] > 0
                => report.summary.ruleStatistics[j].ruleName
                     = RuleNameInRegistry(report.summary.ruleStatistics[j].ruleId)

\* a run returned statistics for a violated rule and for a rule without
\* violations
C27_BothKindsReached ==
    /\ Returned
    /\ \E r \in Range(rulesApplied) : report.summary.byRule[r] = 0
    /\ \E r \in Range(rulesApplied) : report.summary.byRule[r] > 0

====
